---- MODULE Spec2Model ----
(***************************************************************************)
(* Verification model of @ldesign/bookmark-core:                           *)
(*   - BookmarkIndex    (utils/bookmark-index.ts, the full 651-line file)  *)
(*   - BookmarkManager  (managers/bookmark-manager.ts, second class body)  *)
(*   - BookmarkCache    (managers/bookmark-cache.ts)                       *)
(*   - EventEmitter     (utils/event-emitter.ts)                           *)
(*                                                                         *)
(* JavaScript objects live in a heap `obj` (a sequence of records, an      *)
(* object reference is its position), so that the index, the manager's     *)
(* tree and the children arrays share objects exactly as the code does.    *)
(* A JS Map is a function whose DOMAIN is the set of keys present.         *)
(***************************************************************************)
EXTENDS Integers, Sequences, FiniteSets, TLC

\* ------------------------------------------------------------------ bounds
\* objects of the tree handed to the index / the manager's constructor
MaxObj == 3

\* ------------------------------------------------------- absent values
\* getItemId(): undefined (no `id` field); '' is falsy in `if (!id)` as well
NoId == 0
\* a bookmark without url / with url '' (falsy in `item.url`)
NoUrl == 0
\* get(): undefined (no object)
NoRef == 0
\* `null` / `undefined` results
Null == "null"

VARIABLES
    obj,        \* heap: Seq of BookmarkItem objects
    index,      \* BookmarkIndex: the six maps
    items,      \* BookmarkManager.items (root list of object references)
    state,      \* BookmarkManager.state (selectedId, expandedIds)
    call,       \* the last public call: its name, arguments and result
    steps,      \* number of calls made so far on the manager
    cfg,        \* BookmarkCache.config and the environment the cache runs in
    cache,      \* BookmarkCache: memoryCache, head, tail, currentSize, hitCount, missCount
    storage,    \* window.localStorage: key -> stored string
    now,        \* Date.now()
    hist,       \* history of the caller's saves and touches (not program state):
                \* the last save, the keys of a memory cache from the least to
                \* the most recently touched, the keys saved on a durable cache
    emitter,    \* EventEmitter: handlers, with the Sets, wrappers and timers it refers to
    pending     \* the getOrSetAsync calls made on the cache, awaiting or resolved

vars == <<obj, index, items, state, call, steps, cfg, cache, storage, now, hist, emitter, pending>>
treeVars == <<obj, index, items, state>>
cacheVars == <<cfg, cache, storage, now, hist, pending>>

\* ------------------------------------------------------------ JS Map
EmptyMap == [x \in {} |-> Null]
MapSet(m, k, v) == [x \in (DOMAIN m) \cup {k} |-> IF x = k THEN v ELSE m[x]]
MapDel(m, k) == [x \in (DOMAIN m) \ {k} |-> m[x]]
MapGet(m, k, dflt) == IF k \in DOMAIN m THEN m[k] ELSE dflt

\* ------------------------------------------------------------ sequences
Range(s) == {s[i] : i \in DOMAIN s}
Last(s) == s[Len(s)]
\* Array.prototype.indexOf: first position of x, 0 when absent
IndexOf(s, x) == IF x \in Range(s) THEN CHOOSE i \in DOMAIN s : s[i] = x /\ \A j \in 1..(i - 1) : s[j] # x ELSE 0
\* Array.prototype.splice(i, 1)
SpliceOut(s, i) == SubSeq(s, 1, i - 1) \o SubSeq(s, i + 1, Len(s))
\* Array.prototype.splice(i, 0, x): i is the 0-based JS position
SpliceIn(s, i, x) == SubSeq(s, 1, i) \o <<x>> \o SubSeq(s, i + 1, Len(s))

\* String.prototype.toLowerCase on the tag alphabet of the model
toLowerCase(t) == CASE t = "A" -> "a" [] t = "B" -> "b" [] OTHER -> t

\* ------------------------------------------------- bookmark-utils.ts
isFolder(item) == item.type = "folder"
isSeparator(item) == item.type = "separator"
\* `!item.type || item.type === 'bookmark'`: a missing type is kept as "bookmark"
isBookmark(item) == item.type = "bookmark"
getItemId(item) == item.id

\* =====================================================================
\*                          BookmarkIndex
\* =====================================================================
EmptyIndex ==
    [itemMap |-> EmptyMap, parentMap |-> EmptyMap, pathMap |-> EmptyMap,
     tagIndex |-> EmptyMap, urlIndex |-> EmptyMap, childrenIndex |-> EmptyMap]

\* clear(): the six maps are emptied
clear(ix) == EmptyIndex

\* for (const tag of item.tags) { create the set if absent; add(id) }
addTags(tagIndex, tags, id) ==
    LET lowered == {toLowerCase(tags[j]) : j \in DOMAIN tags}
    IN [t \in (DOMAIN tagIndex) \cup lowered |->
            (IF t \in DOMAIN tagIndex THEN tagIndex[t] ELSE {})
            \cup (IF t \in lowered THEN {id} ELSE {})]

\* for (const tag of item.tags) this.tagIndex.get(tag.toLowerCase())?.delete(id)
removeTags(tagIndex, tags, id) ==
    LET lowered == {toLowerCase(tags[j]) : j \in DOMAIN tags}
    IN [t \in DOMAIN tagIndex |-> IF t \in lowered THEN tagIndex[t] \ {id} ELSE tagIndex[t]]

RECURSIVE buildRecursive(_, _, _, _, _)
RECURSIVE buildLoop(_, _, _, _, _, _, _)

\* the body of `for (const item of items)` from position i on; returns the
\* index and the childIds collected so far
buildLoop(ix, h, list, i, parentId, path, childIds) ==
    IF i > Len(list) THEN [ix |-> ix, childIds |-> childIds]
    ELSE LET item == h[list[i]]
             id == getItemId(item)
         IN IF id = NoId
            THEN buildLoop(ix, h, list, i + 1, parentId, path, childIds)
            ELSE LET currentPath == Append(path, id)
                     ix1 == [ix EXCEPT
                                !.itemMap = MapSet(@, id, list[i]),
                                !.parentMap = IF parentId # NoId THEN MapSet(@, id, parentId) ELSE @,
                                !.pathMap = MapSet(@, id, currentPath),
                                !.tagIndex = addTags(@, item.tags, id),
                                !.urlIndex = IF isBookmark(item) /\ item.url # NoUrl
                                             THEN MapSet(@, item.url, id) ELSE @]
                     ix2 == IF isFolder(item)
                            THEN buildRecursive(ix1, h, item.children, id, currentPath)
                            ELSE ix1
                 IN buildLoop(ix2, h, list, i + 1, parentId, path, Append(childIds, id))

\* buildRecursive() that records the children of top-level folders only
buildRecursiveTopOnly(ix, h, list, parentId, path) ==
    LET r == buildLoop(ix, h, list, 1, parentId, path, <<>>)
    IN IF parentId # NoId /\ Len(r.childIds) > 0 /\ Len(path) <= 1
       THEN [r.ix EXCEPT !.childrenIndex = MapSet(@, parentId, r.childIds)]
       ELSE r.ix

buildRecursive(ix, h, list, parentId, path) ==
    LET r == buildLoop(ix, h, list, 1, parentId, path, <<>>)
    IN IF parentId # NoId /\ Len(r.childIds) > 0
       THEN [r.ix EXCEPT !.childrenIndex = MapSet(@, parentId, r.childIds)]
       ELSE r.ix

\* build() that forgets clear()
buildKeepsOld(ix, h, list) == buildRecursive(ix, h, list, NoId, <<>>)

build(ix, h, list) == buildRecursive(clear(ix), h, list, NoId, <<>>)

\* update() without the early return for an id that is not indexed
updateInserts(ix, h, id, newRef) ==
    LET item == h[newRef]
        oldTags == IF id \in DOMAIN ix.itemMap THEN h[ix.itemMap[id]].tags ELSE <<>>
    IN [ix EXCEPT !.tagIndex = addTags(removeTags(@, oldTags, id), item.tags, id),
                  !.urlIndex = IF isBookmark(item) /\ item.url # NoUrl
                               THEN MapSet(@, item.url, id) ELSE @,
                  !.itemMap = MapSet(@, id, newRef)]

\* update() that adds the new tags and url without removing the old ones
updateKeepsOld(ix, h, id, newRef) ==
    IF id \notin DOMAIN ix.itemMap THEN ix
    ELSE LET item == h[newRef]
         IN [ix EXCEPT !.tagIndex = addTags(@, item.tags, id),
                       !.urlIndex = IF isBookmark(item) /\ item.url # NoUrl
                                    THEN MapSet(@, item.url, id) ELSE @,
                       !.itemMap = MapSet(@, id, newRef)]

\* update(id, item): `item` is the object reference newRef
update(ix, h, id, newRef) ==
    IF id \notin DOMAIN ix.itemMap THEN ix
    ELSE LET oldItem == h[ix.itemMap[id]]
             item == h[newRef]
             tags1 == removeTags(ix.tagIndex, oldItem.tags, id)
             tags2 == addTags(tags1, item.tags, id)
             url1 == IF isBookmark(oldItem) /\ oldItem.url # NoUrl
                     THEN MapDel(ix.urlIndex, oldItem.url) ELSE ix.urlIndex
             url2 == IF isBookmark(item) /\ item.url # NoUrl
                     THEN MapSet(url1, item.url, id) ELSE url1
         IN [ix EXCEPT !.tagIndex = tags2, !.urlIndex = url2,
                       !.itemMap = MapSet(@, id, newRef)]

RECURSIVE delete(_, _, _, _)
RECURSIVE deleteLoop(_, _, _, _)

\* `for (const childId of childIds) this.delete(childId, true)`.  childIds is
\* the array stored in childrenIndex[id] itself (or a fresh [] when there is
\* none), and the array iterator re-reads its length at every step, so the
\* splice done by the nested delete is seen by the loop.  With unique ids the
\* entry of `id` is not replaced during the loop, so reading it again from
\* the map is reading the same array.
deleteLoop(ix, h, id, i) ==
    LET childIds == MapGet(ix.childrenIndex, id, <<>>)
    IN IF i > Len(childIds) THEN ix
       ELSE deleteLoop(delete(ix, h, childIds[i], TRUE), h, id, i + 1)

delete(ix, h, id, recursive) ==
    IF id \notin DOMAIN ix.itemMap THEN ix
    ELSE LET item == h[ix.itemMap[id]]
             ix1 == [ix EXCEPT
                        !.tagIndex = removeTags(@, item.tags, id),
                        !.urlIndex = IF isBookmark(item) /\ item.url # NoUrl
                                     THEN MapDel(@, item.url) ELSE @]
             ix2 == IF recursive /\ isFolder(item) THEN deleteLoop(ix1, h, id, 1) ELSE ix1
             parentId == MapGet(ix2.parentMap, id, NoId)
             ix3 == IF parentId # NoId /\ parentId \in DOMAIN ix2.childrenIndex
                       /\ IndexOf(ix2.childrenIndex[parentId], id) # 0
                    THEN [ix2 EXCEPT !.childrenIndex[parentId] = SpliceOut(@, IndexOf(@, id))]
                    ELSE ix2
         IN [ix3 EXCEPT !.itemMap = MapDel(@, id),
                        !.parentMap = MapDel(@, id),
                        !.pathMap = MapDel(@, id),
                        !.childrenIndex = MapDel(@, id)]

\* queries
get(ix, id) == MapGet(ix.itemMap, id, NoRef)
has(ix, id) == id \in DOMAIN ix.itemMap
getAllIds(ix) == DOMAIN ix.itemMap
getParentId(ix, id) == MapGet(ix.parentMap, id, NoId)

\* getParentIds(id): `while (currentId) { currentId = parentMap.get(currentId);
\* if (currentId) parents.unshift(currentId) }`
\* the loop with parents.push(currentId) in place of parents.unshift(currentId)
RECURSIVE getParentIdsPushes(_, _, _)
getParentIdsPushes(ix, currentId, parents) ==
    IF currentId = NoId THEN parents
    ELSE LET next == MapGet(ix.parentMap, currentId, NoId)
         IN getParentIdsPushes(ix, next, IF next # NoId THEN Append(parents, next) ELSE parents)
RECURSIVE getParentIdsLoop(_, _, _)
getParentIdsLoop(ix, currentId, parents) ==
    IF currentId = NoId THEN parents
    ELSE LET next == MapGet(ix.parentMap, currentId, NoId)
         IN getParentIdsLoop(ix, next, IF next # NoId THEN <<next>> \o parents ELSE parents)
getParentIds(ix, id) == getParentIdsLoop(ix, id, <<>>)

\* getPath(id): `pathMap.get(id) || []`
getPath(ix, id) == MapGet(ix.pathMap, id, <<>>)

\* ids.map(id => itemMap.get(id)).filter(item => item !== undefined)
itemsOf(ix, ids) ==
    LET present == SelectSeq(ids, LAMBDA id : id \in DOMAIN ix.itemMap)
    IN [i \in DOMAIN present |-> ix.itemMap[present[i]]]

\* findByTag(tag): the items of the ids in tagIndex[tag.toLowerCase()], none
\* when the tag has no set.  The result is kept as a set of objects: the
\* order of the array (insertion order of the Set) is left out.
findByTag(ix, tag) ==
    LET ids == MapGet(ix.tagIndex, toLowerCase(tag), {})
    IN {ix.itemMap[id] : id \in ids \cap DOMAIN ix.itemMap}

\* findByTags() that skips the tags without a set instead of returning []
findByTagsOfKnown(ix, tags) ==
    LET known == SelectSeq(tags, LAMBDA t : toLowerCase(t) \in DOMAIN ix.tagIndex)
    IN IF Len(known) = 0 THEN {}
       ELSE {ix.itemMap[id] : id \in {i \in DOMAIN ix.itemMap :
                                        \A k \in DOMAIN known : i \in ix.tagIndex[toLowerCase(known[k])]}}

\* findByTags(tags): [] for no tags or a tag without a set, else the items of
\* the ids of the first set that every other set has
findByTags(ix, tags) ==
    IF Len(tags) = 0 THEN {}
    ELSE LET known == SelectSeq(tags, LAMBDA t : toLowerCase(t) \in DOMAIN ix.tagIndex)
             tagSets == [i \in DOMAIN known |-> ix.tagIndex[toLowerCase(known[i])]]
         IN IF Len(tagSets) # Len(tags) THEN {}
            ELSE LET intersection == {id \in tagSets[1] : \A i \in 2..Len(tagSets) : id \in tagSets[i]}
                 IN {ix.itemMap[id] : id \in intersection \cap DOMAIN ix.itemMap}

\* getAllTags(): an entry {tag, count: ids.size} for every key of tagIndex,
\* sorted by count descending.  Entries of equal count keep the insertion
\* order of the Map, which the model leaves out: they come in some order.
RECURSIVE sortByCount(_, _)
sortByCount(tagIndex, tags) ==
    IF tags = {} THEN <<>>
    ELSE LET t == CHOOSE x \in tags : \A y \in tags : Cardinality(tagIndex[x]) >= Cardinality(tagIndex[y])
         IN <<[tag |-> t, count |-> Cardinality(tagIndex[t])]>> \o sortByCount(tagIndex, tags \ {t})
getAllTags(ix) == sortByCount(ix.tagIndex, DOMAIN ix.tagIndex)

\* findByUrl(url): `id ? itemMap.get(id) : undefined`
findByUrl(ix, url) ==
    LET id == MapGet(ix.urlIndex, url, NoId)
    IN IF id # NoId THEN MapGet(ix.itemMap, id, NoRef) ELSE NoRef

\* hasUrl(url)
hasUrl(ix, url) == url \in DOMAIN ix.urlIndex

\* getChildren(parentId): `childrenIndex.get(parentId) || []`, mapped to items
getChildren(ix, parentId) == itemsOf(ix, MapGet(ix.childrenIndex, parentId, <<>>))

\* getDescendants(parentId): `collect` pushes each child the itemMap holds
\* and goes into the folders; the result lists objects
RECURSIVE collect(_, _, _)
RECURSIVE collectLoop(_, _, _, _)
collectLoop(ix, h, childIds, i) ==
    IF i > Len(childIds) THEN <<>>
    ELSE LET item == MapGet(ix.itemMap, childIds[i], NoRef)
         IN (IF item = NoRef THEN <<>>
             ELSE <<item>> \o (IF isFolder(h[item]) THEN collect(ix, h, childIds[i]) ELSE <<>>))
            \o collectLoop(ix, h, childIds, i + 1)
collect(ix, h, id) == collectLoop(ix, h, MapGet(ix.childrenIndex, id, <<>>), 1)
getDescendants(ix, h, parentId) == collect(ix, h, parentId)

\* getSubtreeStats(parentId): `traverse` counts the folders and the bookmarks
\* below id and keeps the greatest depth it was called with; n holds
\* bookmarkCount, folderCount and maxDepth
RECURSIVE traverse(_, _, _, _, _)
RECURSIVE traverseLoop(_, _, _, _, _, _)
traverseLoop(ix, h, childIds, i, depth, n) ==
    IF i > Len(childIds) THEN n
    ELSE LET item == MapGet(ix.itemMap, childIds[i], NoRef)
         IN IF item = NoRef THEN traverseLoop(ix, h, childIds, i + 1, depth, n)
            ELSE IF isFolder(h[item])
            THEN traverseLoop(ix, h, childIds, i + 1, depth,
                              traverse(ix, h, childIds[i], depth + 1, [n EXCEPT !.folderCount = @ + 1]))
            ELSE IF isBookmark(h[item])
            THEN traverseLoop(ix, h, childIds, i + 1, depth, [n EXCEPT !.bookmarkCount = @ + 1])
            ELSE traverseLoop(ix, h, childIds, i + 1, depth, n)
traverse(ix, h, id, depth, n) ==
    traverseLoop(ix, h, MapGet(ix.childrenIndex, id, <<>>), 1, depth,
                 [n EXCEPT !.maxDepth = IF depth > @ THEN depth ELSE @])
getSubtreeStats(ix, h, parentId) ==
    LET n == traverse(ix, h, parentId, 0, [bookmarkCount |-> 0, folderCount |-> 0, maxDepth |-> 0])
    IN [totalCount |-> n.bookmarkCount + n.folderCount, bookmarkCount |-> n.bookmarkCount,
        folderCount |-> n.folderCount, depth |-> n.maxDepth]

\* ------------------------------------------------- the trees of the model
\* ascending sequence of a finite set of numbers
RECURSIVE SeqOfSet(_)
SeqOfSet(S) == IF S = {} THEN <<>> ELSE LET m == CHOOSE x \in S : \A y \in S : x <= y IN <<m>> \o SeqOfSet(S \ {m})

\* what an item of the initial tree can be.  BookmarkSeparatorItem.id is
\* optional: the separators at even positions of the heap carry an id, the
\* others do not
Kinds == {"bookmark", "folder", "separator"}
SepHasId(o) == o % 2 = 0
TagChoices == <<<<>>, <<"a">>, <<"A", "b">>>>
\* the first two objects share a url when both are bookmarks, the others have
\* a url of their own; the tags go round TagChoices
UrlOf(o) == IF o <= 2 THEN 1 ELSE o
TagsOf(o) == TagChoices[(o % 3) + 1]

\* p[o] is the object whose children array holds o (0: none); children arrays
\* list their objects in ascending order
ParentFns == {p \in [1..MaxObj -> 0..MaxObj] : \A o \in 1..MaxObj : p[o] < o}
MkItem(o, kind, children) ==
    [id |-> IF kind = "separator" /\ ~SepHasId(o) THEN NoId ELSE o,
     type |-> kind,
     url |-> IF kind = "bookmark" THEN UrlOf(o) ELSE NoUrl,
     tags |-> IF kind = "bookmark" THEN TagsOf(o) ELSE <<>>,
     children |-> children]
MkHeap(p, k) == [o \in 1..MaxObj |-> MkItem(o, k[o], SeqOfSet({c \in 1..MaxObj : p[c] = o}))]
HeapShapes == {c \in [p : ParentFns, k : [1..MaxObj -> Kinds]] : \A o \in 1..MaxObj : c.p[o] # 0 => c.k[c.p[o]] = "folder"}
Heaps == {MkHeap(c.p, c.k) : c \in HeapShapes}

\* objects no children array refers to, and the item lists made of them
Parentless(h) == {o \in 1..MaxObj : \A q \in DOMAIN h : o \notin Range(h[q].children)}
RootLists(h) == LET all == SeqOfSet(Parentless(h)) IN {SubSeq(all, 1, n) : n \in 0..Len(all)}

\* the objects of a tree, by the children arrays alone
RECURSIVE TreeObjs(_, _)
TreeObjs(h, list) == UNION {{list[i]} \cup TreeObjs(h, h[list[i]].children) : i \in DOMAIN list}
\* proper descendants of an object
DescObjs(h, o) == TreeObjs(h, h[o].children)
TreeIds(h, list) == {h[o].id : o \in TreeObjs(h, list)} \ {NoId}

\* ------------------------------------------------- index: the calls
NoCall == [op |-> "none"]
\* no BookmarkCache is in use
NoCacheUse ==
    /\ cfg = [storage |-> "none"]
    /\ cache = [memoryCache |-> EmptyMap]
    /\ storage = EmptyMap
    /\ now = 0
    /\ hist = [lastSave |-> [key |-> <<>>, at |-> 0], recency |-> <<>>, saved |-> {}]
    /\ pending = <<>>

\* no EventEmitter is in use
NoEmitterUse == emitter = [handlers |-> EmptyMap]

IxBuild(list) ==
    /\ index' = build(index, obj, list)
    /\ call' = [op |-> "build", list |-> list, before |-> getAllIds(index)]
    /\ UNCHANGED <<obj, items, state, steps, cacheVars, emitter>>

IxDelete(id, recursive) ==
    /\ index' = delete(index, obj, id, recursive)
    /\ call' = [op |-> "delete", id |-> id, recursive |-> recursive,
                ref |-> get(index, id)]
    /\ UNCHANGED <<obj, items, state, steps, cacheVars, emitter>>

\* the item a caller hands to update(id, item): another object than the one
\* built, with another url (one no item of the tree has) and other tags.  It
\* is the object at MaxObj + o for the tree's object o.
NewItem(old) ==
    [old EXCEPT !.url = IF isBookmark(old) THEN old.url + MaxObj ELSE NoUrl,
                !.tags = IF old.tags = <<>> THEN <<"B">> ELSE Tail(old.tags)]
NewRef(o) == IF o > MaxObj THEN o ELSE MaxObj + o
WithNewItems(h) == [o \in 1..(2 * MaxObj) |-> IF o <= MaxObj THEN h[o] ELSE NewItem(h[o - MaxObj])]

\* update(id, item): item is the caller's new object for id; calling it again
\* passes the object the index already stores
IxUpdate(id) ==
    LET item == IF has(index, id) THEN NewRef(get(index, id)) ELSE NewRef(id)
    IN /\ index' = update(index, obj, id, item)
       /\ call' = [op |-> "update", id |-> id, ref |-> get(index, id), item |-> item]
    /\ UNCHANGED <<obj, items, state, steps, cacheVars, emitter>>

IndexInit ==
    /\ obj \in {WithNewItems(h) : h \in Heaps}
    /\ index = EmptyIndex
    /\ items = <<>>
    /\ state = [selectedId |-> NoId, expandedIds |-> <<>>]
    /\ call = NoCall
    /\ steps = 0
    /\ NoCacheUse
    /\ NoEmitterUse

IndexNext ==
    \/ \E list \in RootLists(obj) : IxBuild(list)
    \/ \E id \in 1..MaxObj, recursive \in BOOLEAN : IxDelete(id, recursive)
    \/ \E id \in 1..MaxObj : IxUpdate(id)

SpecIndex == IndexInit /\ [][IndexNext]_vars

\* trees built one after the other by the same index
BuildNext == \E list \in RootLists(obj) : IxBuild(list)
SpecBuild == IndexInit /\ [][BuildNext]_vars

\* =====================================================================
\*                      BookmarkIndex: search
\* =====================================================================
\* A string is the sequence of its characters.  A score is a fraction n/d in
\* lowest terms with d > 0: the weights 1.5, 0.8, 0.5, 0.3, 0.2 and the
\* divisions of the code are exact in it (the rounding of doubles is left
\* out).
RECURSIVE GCD(_, _)
GCD(a, b) == IF b = 0 THEN a ELSE GCD(b, a % b)
Rat(n, d) == LET g == GCD(IF n < 0 THEN -n ELSE n, d) IN [n |-> n \div g, d |-> d \div g]
Zero == Rat(0, 1)
One == Rat(1, 1)
RAdd(x, y) == Rat(x.n * y.d + y.n * x.d, x.d * y.d)
RMul(x, y) == Rat(x.n * y.n, x.d * y.d)
RLeq(x, y) == x.n * y.d <= y.n * x.d
RLess(x, y) == x.n * y.d < y.n * x.d
RMin(x, y) == IF RLeq(x, y) THEN x ELSE y

\* String.prototype.toLowerCase, character by character
lowerCase(text) == [i \in DOMAIN text |-> toLowerCase(text[i])]
\* String.prototype.indexOf(query): 0-based, -1 when absent
indexOf(text, query) ==
    LET at == {i \in 0..(Len(text) - Len(query)) : SubSeq(text, i + 1, i + Len(query)) = query}
    IN IF at = {} THEN -1 ELSE CHOOSE i \in at : \A j \in at : i <= j
\* String.prototype.includes(query)
includes(text, query) == indexOf(text, query) # -1

\* exactMatch(query, text): 0 for an empty text or no occurrence, 1 for an
\* occurrence at the start, 0.8 otherwise
exactMatch(query, text) ==
    IF text = <<>> THEN Zero
    ELSE IF indexOf(text, query) = -1 THEN Zero
    ELSE IF indexOf(text, query) = 0 THEN One ELSE Rat(8, 10)

\* the while loop of fuzzyMatch; positions are 0-based as in the code
RECURSIVE fuzzyLoop(_, _, _, _, _, _, _)
fuzzyLoop(query, text, queryIndex, textIndex, matched, consecutiveMatches, maxConsecutive) ==
    IF ~(queryIndex < Len(query) /\ textIndex < Len(text))
    THEN [queryIndex |-> queryIndex, matched |-> matched, maxConsecutive |-> maxConsecutive]
    ELSE IF query[queryIndex + 1] = text[textIndex + 1]
    THEN fuzzyLoop(query, text, queryIndex + 1, textIndex + 1, matched + 1, consecutiveMatches + 1,
                   IF consecutiveMatches + 1 > maxConsecutive THEN consecutiveMatches + 1 ELSE maxConsecutive)
    ELSE fuzzyLoop(query, text, queryIndex, textIndex + 1, matched, 0, maxConsecutive)

\* fuzzyMatch() that counts a match only when its characters are adjacent
fuzzyMatchAdjacent(query, text) ==
    IF text = <<>> \/ query = <<>> THEN Zero
    ELSE LET r == fuzzyLoop(query, text, 0, 0, 0, 0, 0)
         IN IF r.queryIndex < Len(query) \/ r.maxConsecutive < Len(query) THEN Zero ELSE One

\* fuzzyMatch(query, text)
fuzzyMatch(query, text) ==
    IF text = <<>> \/ query = <<>> THEN Zero
    ELSE LET r == fuzzyLoop(query, text, 0, 0, 0, 0, 0)
         IN IF r.queryIndex < Len(query) THEN Zero
            ELSE LET matchRatio == Rat(r.matched, Len(query))
                     consecutiveBonus == Rat(r.maxConsecutive, Len(query))
                     lengthPenalty == RMin(One, Rat(Len(query), Len(text)))
                 IN RAdd(RAdd(RMul(matchRatio, Rat(5, 10)), RMul(consecutiveBonus, Rat(3, 10))),
                         RMul(lengthPenalty, Rat(2, 10)))

\* the string fields of the items searched.  A string field holds the number
\* of its text in Texts, 0 for a field that is absent or '' (search treats the
\* two alike: no text, no score)
Texts == <<<<"a", "b">>, <<"b", "a", "b">>, <<"A", "b", "a">>, <<"b">>>>
NoText == 0
Text(n) == IF n = NoText THEN <<>> ELSE Texts[n]

\* the score of one string field: fuzzy ? fuzzyMatch : exactMatch, on the
\* text lowered unless caseSensitive
fieldScore(normalizedQuery, text, options) ==
    LET t == IF options.caseSensitive THEN text ELSE lowerCase(text)
    IN IF options.fuzzy THEN fuzzyMatch(normalizedQuery, t) ELSE exactMatch(normalizedQuery, t)

\* the tags loop: some tag includes the query
tagsMatch(normalizedQuery, tags, options) ==
    \E i \in DOMAIN tags :
        includes(IF options.caseSensitive THEN <<tags[i]>> ELSE <<toLowerCase(tags[i])>>, normalizedQuery)

\* the weighted score of each field of an item, Zero for a field that is not
\* searched or does not match, in the order the code visits the fields
Fields == <<"title", "url", "tags", "description">>
weighted(item, field, normalizedQuery, options) ==
    IF field \notin options.searchIn THEN Zero
    ELSE CASE field = "title" ->
                 IF item.title # NoText
                 THEN RMul(fieldScore(normalizedQuery, Text(item.title), options), Rat(15, 10)) ELSE Zero
           [] field = "url" ->
                 IF isBookmark(item) /\ item.url # NoUrl
                 THEN fieldScore(normalizedQuery, Text(item.url), options) ELSE Zero
           [] field = "tags" ->
                 IF tagsMatch(normalizedQuery, item.tags, options) THEN One ELSE Zero
           [] field = "description" ->
                 IF item.description # NoText
                 THEN RMul(fieldScore(normalizedQuery, Text(item.description), options), Rat(5, 10)) ELSE Zero

\* the body of the loop of search for one item: its SearchResult, with no
\* matched field when the item is filtered out or nothing matches
searchItem(h, ref, normalizedQuery, options) ==
    LET item == h[ref]
        skipped == (options.bookmarksOnly /\ ~isBookmark(item)) \/ (options.foldersOnly /\ ~isFolder(item))
        matchedFields == IF skipped THEN <<>>
                         ELSE SelectSeq(Fields, LAMBDA f : RLess(Zero, weighted(item, f, normalizedQuery, options)))
        totalScore == RAdd(RAdd(weighted(item, "title", normalizedQuery, options),
                                weighted(item, "url", normalizedQuery, options)),
                           RAdd(weighted(item, "tags", normalizedQuery, options),
                                weighted(item, "description", normalizedQuery, options)))
    IN [item |-> ref,
        score |-> IF matchedFields = <<>> THEN Zero ELSE RMul(totalScore, Rat(1, Len(matchedFields))),
        matchedFields |-> matchedFields]

\* results.sort((a, b) => b.score - a.score): the sort is stable, so a result
\* goes behind the results that score at least as much
RECURSIVE insertByScore(_, _)
insertByScore(sorted, r) ==
    IF sorted = <<>> THEN <<r>>
    ELSE IF RLeq(r.score, Head(sorted).score) THEN <<Head(sorted)>> \o insertByScore(Tail(sorted), r)
    ELSE <<r>> \o sorted
RECURSIVE sortByScore(_)
sortByScore(results) ==
    IF results = <<>> THEN <<>>
    ELSE insertByScore(sortByScore(SubSeq(results, 1, Len(results) - 1)), Last(results))

\* Array.prototype.slice(0, limit)
slice(results, limit) ==
    LET n == Len(results)
        end == IF limit < 0 THEN (IF n + limit < 0 THEN 0 ELSE n + limit)
               ELSE (IF limit > n THEN n ELSE limit)
    IN SubSeq(results, 1, end)

\* the results pushed by the loop over itemMap, in the order of the map
pushed(ix, h, query, options) ==
    LET normalizedQuery == IF options.caseSensitive THEN query ELSE lowerCase(query)
        ids == SeqOfSet(DOMAIN ix.itemMap)
        all == [i \in DOMAIN ids |-> searchItem(h, ix.itemMap[ids[i]], normalizedQuery, options)]
    IN SelectSeq(all, LAMBDA r : Len(r.matchedFields) > 0)

\* search() that forgets to sort
searchUnsorted(ix, h, query, options) == slice(pushed(ix, h, query, options), options.limit)

\* search(query, options)
search(ix, h, query, options) == slice(sortByScore(pushed(ix, h, query, options)), options.limit)

\* ------------------------------------------------- search: the calls
\* characters and length of the queries and texts of fuzzyMatch
Chars == {"a", "b", "A"}
MaxText == 3
Strings == UNION {[1..n -> Chars] : n \in 0..MaxText}
\* the strings of the documented example
Examples == {<<"g", "h">>, <<"x", "z">>, <<"g", "i", "t", "h", "u", "b">>}

\* items indexed for a search
SearchItems == 2
\* `limit` when the caller gives none
DefaultLimit == 50
\* the largest limit a caller gives
MaxLimit == 1

\* what an indexed item can be
ItemChoices ==
    {[type |-> "bookmark", title |-> 1, url |-> 2, description |-> NoText, tags |-> <<"a">>],
     [type |-> "bookmark", title |-> 3, url |-> 4, description |-> 1, tags |-> <<"A", "b">>],
     [type |-> "bookmark", title |-> 4, url |-> 1, description |-> NoText, tags |-> <<>>],
     [type |-> "folder", title |-> 2, url |-> NoUrl, description |-> 3, tags |-> <<>>],
     [type |-> "separator", title |-> NoText, url |-> NoUrl, description |-> NoText, tags |-> <<>>]}
SearchHeaps ==
    {[o \in 1..SearchItems |->
        [id |-> o, type |-> c[o].type, url |-> c[o].url, tags |-> c[o].tags, children |-> <<>>,
         title |-> c[o].title, description |-> c[o].description]] : c \in [1..SearchItems -> ItemChoices]}

Queries == {<<>>, <<"a">>, <<"b">>, <<"A">>, <<"a", "b">>, <<"b", "a">>, <<"b", "b">>, <<"A", "b">>}
SearchIns == {{"title", "url"}, {"title"}, {"tags"}, {"description"}, {"url", "tags"},
              {"title", "url", "tags", "description"}}
Options ==
    [caseSensitive : BOOLEAN, fuzzy : BOOLEAN, limit : (0..MaxLimit) \cup {DefaultLimit},
     searchIn : SearchIns, bookmarksOnly : BOOLEAN, foldersOnly : BOOLEAN]

IxSearch(query, options) ==
    /\ call' = [op |-> "search", query |-> query, options |-> options,
                results |-> search(index, obj, query, options)]
    /\ UNCHANGED <<obj, index, items, state, steps, cacheVars, emitter>>

IxFuzzyMatch(query, text) ==
    /\ call' = [op |-> "fuzzyMatch", query |-> query, text |-> text, score |-> fuzzyMatch(query, text)]
    /\ UNCHANGED <<obj, index, items, state, steps, cacheVars, emitter>>

SearchInit ==
    /\ obj \in SearchHeaps
    /\ index = build(EmptyIndex, obj, SeqOfSet(1..SearchItems))
    /\ items = <<>>
    /\ state = [selectedId |-> NoId, expandedIds |-> <<>>]
    /\ call = NoCall
    /\ steps = 0
    /\ NoCacheUse
    /\ NoEmitterUse

\* search reads the index and changes nothing, so a second query finds what
\* the first found: a behaviour makes one
SearchNext ==
    call = NoCall /\ \E query \in Queries, options \in Options : IxSearch(query, options)

\* fuzzyMatch reads no field of the index: it is called on an empty one
FuzzyInit ==
    /\ obj = <<>>
    /\ index = EmptyIndex
    /\ items = <<>>
    /\ state = [selectedId |-> NoId, expandedIds |-> <<>>]
    /\ call = NoCall
    /\ steps = 0
    /\ NoCacheUse
    /\ NoEmitterUse

FuzzyNext ==
    call = NoCall /\ \E query \in Strings \cup Examples, text \in Strings \cup Examples : IxFuzzyMatch(query, text)

SpecFuzzyMatch == FuzzyInit /\ [][FuzzyNext]_vars

SpecSearch == SearchInit /\ [][SearchNext]_vars

\* =====================================================================
\*                          BookmarkManager
\* =====================================================================
\* objects allocated by add/addFolder after construction
MaxAdd == 1
\* calls made on one manager
MaxOps == 2

\* the tree of the manager: the heap and this.items.  A list of the tree is
\* named by its owner: 0 for this.items, o for the children array of object o
Tree(h, list) == [h |-> h, items |-> list]
ListAt(t, loc) == IF loc = 0 THEN t.items ELSE t.h[loc].children
SetListAt(t, loc, l) == IF loc = 0 THEN [t EXCEPT !.items = l] ELSE [t EXCEPT !.h[loc].children = l]

\* list.findIndex(item => 'id' in item && item.id === id), 0-based, -1 if none
findIndexById(h, list, id) ==
    IF \E i \in DOMAIN list : h[list[i]].id = id
    THEN (CHOOSE i \in DOMAIN list : h[list[i]].id = id /\ \A j \in 1..(i - 1) : h[list[j]].id # id) - 1
    ELSE -1

\* Array.prototype.splice(start, 0, x) with the start clamped as JS does
spliceInsert(list, start, x) ==
    LET n == Len(list)
        at == IF start < 0 THEN (IF n + start < 0 THEN 0 ELSE n + start)
              ELSE (IF start > n THEN n ELSE start)
    IN SpliceIn(list, at, x)

RECURSIVE findItemById(_, _, _)
RECURSIVE findItemLoop(_, _, _, _)
findItemLoop(h, list, id, i) ==
    IF i > Len(list) THEN NoRef
    ELSE IF getItemId(h[list[i]]) = id THEN list[i]
    ELSE LET found == IF isFolder(h[list[i]]) THEN findItemById(h, h[list[i]].children, id) ELSE NoRef
         IN IF found # NoRef THEN found ELSE findItemLoop(h, list, id, i + 1)
findItemById(h, list, id) == findItemLoop(h, list, id, 1)

\* getItemPath(items, id).ids: the ids from the root to the item, <<>> when
\* the item is not in the tree (getItemPath returns undefined)
RECURSIVE getItemPathIds(_, _, _)
RECURSIVE getItemPathLoop(_, _, _, _)
getItemPathLoop(h, list, id, i) ==
    IF i > Len(list) THEN <<>>
    ELSE LET item == h[list[i]]
             itemId == getItemId(item)
         IN IF itemId = id THEN <<itemId>>
            ELSE LET below == IF isFolder(item) THEN getItemPathIds(h, item.children, id) ELSE <<>>
                 IN IF below # <<>>
                    THEN (IF itemId # NoId THEN <<itemId>> ELSE <<>>) \o below
                    ELSE getItemPathLoop(h, list, id, i + 1)
getItemPathIds(h, list, id) == getItemPathLoop(h, list, id, 1)

\* getParentIds(items, id): the path without its last id
getParentIdsOfTree(h, list, id) ==
    LET ids == getItemPathIds(h, list, id)
    IN IF ids = <<>> THEN <<>> ELSE SubSeq(ids, 1, Len(ids) - 1)

\* removeFromList(list, id): [t |-> the tree afterwards, ok |-> the result]
RECURSIVE removeFromList(_, _, _)
RECURSIVE removeFromLoop(_, _, _, _)
removeFromLoop(t, loc, id, i) ==
    LET list == ListAt(t, loc)
    IN IF i > Len(list) THEN [t |-> t, ok |-> FALSE]
       ELSE LET r == IF isFolder(t.h[list[i]]) THEN removeFromList(t, list[i], id)
                     ELSE [t |-> t, ok |-> FALSE]
            IN IF r.ok THEN r ELSE removeFromLoop(t, loc, id, i + 1)
removeFromList(t, loc, id) ==
    LET list == ListAt(t, loc)
        at == findIndexById(t.h, list, id)
    IN IF at # -1 THEN [t |-> SetListAt(t, loc, SpliceOut(list, at + 1)), ok |-> TRUE]
       ELSE removeFromLoop(t, loc, id, 1)

removeItem(t, id) == removeFromList(t, 0, id)

\* insertItem(item, parentId, index); index = -1 stands for `undefined`
insertItem(t, ref, parentId, at) ==
    LET parent == IF parentId # NoId THEN findItemById(t.h, t.items, parentId) ELSE NoRef
        loc == IF parent # NoRef /\ isFolder(t.h[parent]) THEN parent ELSE 0
        targetList == ListAt(t, loc)
    IN IF at >= 0 /\ at <= Len(targetList)
       THEN SetListAt(t, loc, SpliceIn(targetList, at, ref))
       ELSE SetListAt(t, loc, Append(targetList, ref))

\* add(item, parentId, index) and addFolder(folder, parentId, index): the new
\* object gets a fresh id (generateId(), or an id of the caller's that no item
\* has).  Neither method touches this.index.
newObject(kind, id) ==
    [id |-> id, type |-> kind, url |-> IF kind = "bookmark" THEN id ELSE NoUrl,
     tags |-> <<>>, children |-> <<>>]

\* one more call is made on the manager
Called == steps < MaxOps /\ steps' = steps + 1 /\ UNCHANGED <<cacheVars, emitter>>

MgrAdd(kind, parentId, at) ==
    /\ Called
    /\ Len(obj) < MaxObj + MaxAdd
    /\ LET ref == Len(obj) + 1
           t == insertItem(Tree(Append(obj, newObject(kind, ref)), items), ref, parentId, at)
       IN /\ obj' = t.h
          /\ items' = t.items
          /\ call' = [op |-> IF kind = "folder" THEN "addFolder" ELSE "add", id |-> ref, ok |-> TRUE]
    /\ UNCHANGED <<index, state>>

\* remove(id)
MgrRemove(id) ==
    /\ Called
    /\ IF ~has(index, id)
       THEN /\ call' = [op |-> "remove", id |-> id, ok |-> FALSE]
            /\ UNCHANGED <<obj, items, index, state>>
       ELSE LET r == removeItem(Tree(obj, items), id)
            IN /\ obj' = r.t.h
               /\ items' = r.t.items
               /\ index' = IF r.ok THEN delete(index, obj, id, TRUE) ELSE index
               /\ state' = IF r.ok
                           THEN [selectedId |-> IF state.selectedId = id THEN NoId ELSE state.selectedId,
                                 expandedIds |-> SelectSeq(state.expandedIds, LAMBDA i : i # id)]
                           ELSE state
               /\ call' = [op |-> "remove", id |-> id, ok |-> r.ok]

\* update(id, changes): Object.assign on the stored object itself, then
\* index.update(id, item) with that same object
Changes == {[url |-> MaxObj + MaxAdd + 1, tags |-> <<"B">>]}
assign(item, changes) ==
    [f \in DOMAIN item |-> IF f \in DOMAIN changes THEN changes[f] ELSE item[f]]

MgrUpdate(id, changes) ==
    /\ Called
    /\ IF ~has(index, id)
       THEN /\ call' = [op |-> "update", id |-> id, ok |-> FALSE]
            /\ UNCHANGED <<obj, items, index, state>>
       ELSE LET ref == get(index, id)
            IN /\ obj' = [obj EXCEPT ![ref] = assign(@, changes)]
               /\ index' = update(index, obj', id, ref)
               /\ call' = [op |-> "update", id |-> id, ok |-> TRUE]
               /\ UNCHANGED <<items, state>>

\* move(sourceId, targetId, position)
moveTree(t, ix, sourceId, targetId, position) ==
    LET sourceItem == get(ix, sourceId)
        targetItem == get(ix, targetId)
        t1 == removeItem(t, sourceId).t
    IN IF position = "inside"
       THEN [t1 EXCEPT !.h[targetItem].children = Append(@, sourceItem)]
       ELSE LET targetParentIds == getParentIdsOfTree(t1.h, t1.items, targetId)
                targetParentId == IF targetParentIds = <<>> THEN NoId ELSE Last(targetParentIds)
                loc == IF targetParentId # NoId THEN findItemById(t1.h, t1.items, targetParentId) ELSE 0
                targetList == ListAt(t1, loc)
                targetIndex == findIndexById(t1.h, targetList, targetId)
                insertIndex == IF position = "after" THEN targetIndex + 1 ELSE targetIndex
            IN SetListAt(t1, loc, spliceInsert(targetList, insertIndex, sourceItem))

MgrMove(sourceId, targetId, position) ==
    /\ Called
    /\ IF \/ sourceId = targetId
          \/ ~has(index, sourceId) \/ ~has(index, targetId)
          \/ (position = "inside" /\ ~isFolder(obj[get(index, targetId)]))
       THEN /\ call' = [op |-> "move", id |-> sourceId, ok |-> FALSE]
            /\ UNCHANGED <<obj, items, index, state>>
       ELSE LET t == moveTree(Tree(obj, items), index, sourceId, targetId, position)
            IN /\ obj' = t.h
               /\ items' = t.items
               /\ index' = build(index, t.h, t.items)
               /\ call' = [op |-> "move", id |-> sourceId, ok |-> TRUE]
               /\ UNCHANGED state

\* updateItems(items)
MgrUpdateItems(list) ==
    /\ Called
    /\ items' = list
    /\ index' = build(index, obj, list)
    /\ call' = [op |-> "updateItems", id |-> NoId, ok |-> TRUE]
    /\ UNCHANGED <<obj, state>>

\* importFromJSON(data, merge): in merge mode the items whose id the index
\* does not hold are pushed onto this.items
RECURSIVE mergeItems(_, _, _, _)
mergeItems(h, ix, list, data) ==
    IF data = <<>> THEN list
    ELSE LET id == h[Head(data)].id
         IN mergeItems(h, ix, IF id # NoId /\ ~has(ix, id) THEN Append(list, Head(data)) ELSE list, Tail(data))

MgrImportFromJSON(data, merge) ==
    /\ Called
    /\ items' = IF merge THEN mergeItems(obj, index, items, data) ELSE data
    /\ index' = build(index, obj, items')
    /\ call' = [op |-> "importFromJSON", id |-> NoId, ok |-> TRUE]
    /\ UNCHANGED <<obj, state>>

\* getById(id)
getById(ix, id) == get(ix, id)

\* wouldCreateCycle(sourceId, targetId)
wouldCreateCycle(ix, h, sourceId, targetId) ==
    LET sourceItem == get(ix, sourceId)
    IN IF sourceItem = NoRef \/ ~isFolder(h[sourceItem]) THEN FALSE
       ELSE sourceId \in Range(getParentIds(ix, targetId))

\* objects reachable from a set of objects in at most n steps
RECURSIVE ReachN(_, _, _)
ReachN(h, S, n) == IF n = 0 \/ S = {} THEN S ELSE S \cup ReachN(h, UNION {Range(h[o].children) : o \in S}, n - 1)
Reach(h, S) == ReachN(h, S, Len(h))
\* an item list without cycles in which no object occurs twice
IsForest(h, list) ==
    LET R == Reach(h, Range(list))
    IN /\ \A o \in R : o \notin Reach(h, Range(h[o].children))
       /\ \A i, j \in DOMAIN list : list[i] = list[j] => i = j
       /\ \A o \in R : \A i, j \in DOMAIN h[o].children : h[o].children[i] = h[o].children[j] => i = j
       /\ \A o \in R : Range(h[o].children) \cap Range(list) = {}
       /\ \A o, q \in R : o # q => Range(h[o].children) \cap Range(h[q].children) = {}

\* new BookmarkManager({ items }): the index is built over the given tree.
\* No stored copy exists (loadFromStorage finds nothing).
\* The data a caller passes to updateItems/importFromJSON is a forest made of
\* objects that are in no children array; merged data shares no object with
\* the manager's tree.
RootObjs(h) == {o \in DOMAIN h : \A q \in DOMAIN h : o \notin Range(h[q].children)}
Prefixes(all) == {SubSeq(all, 1, n) : n \in 0..Len(all)}
DataLists(h) == {l \in Prefixes(SeqOfSet(RootObjs(h))) : IsForest(h, l)}
MergeLists(h, list) == {l \in Prefixes(SeqOfSet(RootObjs(h) \ Range(list))) : IsForest(h, l) /\ Reach(h, Range(l)) \cap Reach(h, Range(list)) = {}}

ManagerInit ==
    /\ obj \in Heaps
    /\ items \in RootLists(obj)
    /\ index = build(EmptyIndex, obj, items)
    /\ state = [selectedId |-> NoId, expandedIds |-> <<>>]
    /\ call = NoCall
    /\ steps = 0
    /\ NoCacheUse
    /\ NoEmitterUse

ManagerNext ==
    \/ \E kind \in {"bookmark", "folder"}, parentId \in 0..Len(obj), at \in {-1, 0} : MgrAdd(kind, parentId, at)
    \/ \E id \in 1..Len(obj) : MgrRemove(id)
    \/ \E id \in 1..Len(obj), changes \in Changes : MgrUpdate(id, changes)
    \/ \E sourceId \in 1..Len(obj), targetId \in 1..Len(obj), position \in {"before", "after", "inside"} : MgrMove(sourceId, targetId, position)
    \/ \E list \in DataLists(obj) : MgrUpdateItems(list)
    \/ \E merge \in BOOLEAN : \E list \in (IF merge THEN MergeLists(obj, items) ELSE DataLists(obj)) : MgrImportFromJSON(list, merge)

SpecManager == ManagerInit /\ [][ManagerNext]_vars

\* =====================================================================
\*                          BookmarkCache
\* =====================================================================
\* largest config.maxSize
MaxSize == 2
\* the clock runs from 0 to MaxTime
MaxTime == 2
\* the positive config.ttl
Ttl == 1
\* config.compressionThreshold, in items of the payload
Threshold == 1
\* calls made on one durable cache
MaxCalls == 2
\* load and has calls that reach the hit and miss counters of one cache
MaxAccesses == 2

\* config.ttl ?? -1: entries never expire
NoTtl == -1
CACHE_VERSION == "1.1.0"
\* the version written by an earlier release
OldVersion == "1.0.0"

\* cache keys are strings (sequences of characters); config.storageKey is "b"
storageKey == <<"b">>
Keys == {<<"b">>, <<"b", "x">>, <<"z">>}
\* a null LRUNode pointer
NoKey == <<>>
\* String.prototype.startsWith
startsWith(k, prefix) == Len(k) >= Len(prefix) /\ SubSeq(k, 1, Len(prefix)) = prefix

\* the payloads a caller saves (BookmarkItem[] by the ids of its items)
Payloads == {<<>>, <<1, 2>>}
\* the result of load(): null, or the items
Absent == [found |-> FALSE, items |-> <<>>]
Found(its) == [found |-> TRUE, items |-> its]

\* CacheData; NoData is the JSON value null
NoData == [items |-> <<>>, timestamp |-> 0, version |-> "none", accessCount |-> 0, lastAccess |-> 0]
CacheData(its, t, v) == [items |-> its, timestamp |-> t, version |-> v, accessCount |-> 1, lastAccess |-> t]

\* a stored string: `mark` is the "__compressed__" prefix, `enc` says what
\* the rest is (JSON text, base64 of JSON text, or something else) and `data`
\* the value the JSON text stands for.  NoRaw is getItem()'s null.
NoRaw == [mark |-> FALSE, enc |-> "none", data |-> NoData]
Junk == [mark |-> FALSE, enc |-> "junk", data |-> NoData]
JsonNull == [mark |-> FALSE, enc |-> "json", data |-> NoData]

\* btoa(encodeURIComponent(str))
compress(str) == [str EXCEPT !.enc = IF @ = "json" THEN "b64" ELSE @]
\* decodeURIComponent(atob(str)); atob throws on anything that is not base64
\* and the catch returns str as it is
decompress(str) == [str EXCEPT !.enc = IF @ = "b64" THEN "json" ELSE @]

\* serialize(data): JSON.stringify, compressed and marked when compression is
\* on and the text is longer than the threshold
serialize(c, data) ==
    LET serialized == [mark |-> FALSE, enc |-> "json", data |-> data]
    IN IF c.compress /\ Len(data.items) > c.compressionThreshold
       THEN [compress(serialized) EXCEPT !.mark = TRUE]
       ELSE serialized

\* deserialize() that parses the text behind the mark without decompressing it
deserializeRaw(raw) ==
    IF raw.enc = "json" THEN [threw |-> FALSE, data |-> raw.data] ELSE [threw |-> TRUE, data |-> NoData]

\* deserialize(raw): JSON.parse throws on text that is not JSON
deserialize(raw) ==
    LET text == IF raw.mark THEN decompress([raw EXCEPT !.mark = FALSE]) ELSE raw
    IN IF text.enc = "json" THEN [threw |-> FALSE, data |-> text.data] ELSE [threw |-> TRUE, data |-> NoData]

\* getStorage(): null without a window; reading window.localStorage can throw
getStorage(c) ==
    IF ~c.hasWindow THEN "null" ELSE IF "access" \in c.faults THEN "throws" ELSE "storage"

\* isValid() that does not look at the version
isValidAnyVersion(c, t, data) == ~(c.ttl > 0 /\ t - data.timestamp > c.ttl)

\* isValid(data), for data that is an object (on null it throws a TypeError)
isValid(c, t, data) ==
    /\ data.version = CACHE_VERSION
    /\ ~(c.ttl > 0 /\ t - data.timestamp > c.ttl)

validateAndReturn(c, t, data) == IF ~isValid(c, t, data) THEN Absent ELSE Found(data.items)

\* ------------------------------------------------- the LRU list
EmptyCache ==
    [memoryCache |-> EmptyMap, head |-> NoKey, tail |-> NoKey, currentSize |-> 0, hitCount |-> 0, missCount |-> 0]

addToHead(m, k) ==
    LET m1 == [m EXCEPT !.memoryCache[k].next = m.head, !.memoryCache[k].prev = NoKey]
        m2 == IF m.head # NoKey THEN [m1 EXCEPT !.memoryCache[m.head].prev = k] ELSE m1
        m3 == [m2 EXCEPT !.head = k]
    IN IF m3.tail = NoKey THEN [m3 EXCEPT !.tail = k] ELSE m3

\* removeNode() without `else this.tail = node.prev`
removeNodeKeepsTail(m, k) ==
    LET node == m.memoryCache[k]
        m1 == IF node.prev # NoKey THEN [m EXCEPT !.memoryCache[node.prev].next = node.next]
              ELSE [m EXCEPT !.head = node.next]
    IN IF node.next # NoKey THEN [m1 EXCEPT !.memoryCache[node.next].prev = node.prev]
       ELSE m1

removeNode(m, k) ==
    LET node == m.memoryCache[k]
        m1 == IF node.prev # NoKey THEN [m EXCEPT !.memoryCache[node.prev].next = node.next]
              ELSE [m EXCEPT !.head = node.next]
    IN IF node.next # NoKey THEN [m1 EXCEPT !.memoryCache[node.next].prev = node.prev]
       ELSE [m1 EXCEPT !.tail = node.prev]

\* moveToHead() that leaves the node where it is
moveToHeadNot(m, k) == m

moveToHead(m, k) == addToHead(removeNode(m, k), k)

\* evictLRU() that evicts nothing
evictNothing(m) == m

evictLRU(m) ==
    IF m.tail = NoKey THEN m
    ELSE LET evicted == m.tail
         IN [removeNode(m, evicted) EXCEPT !.memoryCache = MapDel(@, evicted), !.currentSize = @ - 1]

setInMemory(c, m, k, data) ==
    IF k \in DOMAIN m.memoryCache
    THEN moveToHead([m EXCEPT !.memoryCache[k].value = data], k)
    ELSE LET m1 == [m EXCEPT !.memoryCache = MapSet(@, k, [value |-> data, prev |-> NoKey, next |-> NoKey])]
             m2 == [addToHead(m1, k) EXCEPT !.currentSize = @ + 1]
         IN IF m2.currentSize > c.maxSize THEN evictLRU(m2) ELSE m2

\* ------------------------------------------------- the public methods
\* A method takes the config c, the time t and the world w (the cache object
\* and the storage) and gives the world afterwards, what it returns and
\* whether it threw to its caller.
World(m, s) == [cache |-> m, storage |-> s]
Returns(w, ret) == [cache |-> w.cache, storage |-> w.storage, ret |-> ret, threw |-> FALSE]
Throws(w) == [cache |-> w.cache, storage |-> w.storage, ret |-> Absent, threw |-> TRUE]

\* loadFromMemory(key)
loadFromMemory(c, t, w, k) ==
    IF k \notin DOMAIN w.cache.memoryCache
    THEN Returns(World([w.cache EXCEPT !.missCount = @ + 1], w.storage), Absent)
    ELSE LET m == [moveToHead(w.cache, k) EXCEPT !.hitCount = @ + 1]
         IN Returns(World(m, w.storage), validateAndReturn(c, t, m.memoryCache[k].value))

\* the try block of save()
saveTry(c, t, w, its, k) ==
    LET st == getStorage(c)
    IN IF st = "throws" THEN Throws(w)
       ELSE IF st = "null" THEN Returns(w, Absent)
       ELSE IF "setItem" \in c.faults THEN Throws(w)
       ELSE Returns(World(w.cache, MapSet(w.storage, k, serialize(c, CacheData(its, t, CACHE_VERSION)))), Absent)

\* save(items, key)
save(c, t, w, its, k) ==
    LET data == CacheData(its, t, CACHE_VERSION)
    IN IF c.storage = "memory"
       THEN Returns(World(setInMemory(c, w.cache, k, data), w.storage), Absent)
       ELSE LET r == saveTry(c, t, w, its, k)
            IN IF r.threw
               THEN Returns(World(setInMemory(c, w.cache, k, data), w.storage), Absent)
               ELSE r

\* the try block of load()
loadTry(c, t, w, k) ==
    LET st == getStorage(c)
        raw == MapGet(w.storage, k, NoRaw)
        d == deserialize(raw)
        found == validateAndReturn(c, t, d.data)
        saved == save(c, t, w, found.items, k)
    IN IF st = "throws" THEN Throws(w)
       ELSE IF st = "null" THEN loadFromMemory(c, t, w, k)
       ELSE IF "getItem" \in c.faults THEN Throws(w)
       ELSE IF raw = NoRaw THEN Returns(w, Absent)
       ELSE IF d.threw \/ d.data = NoData THEN Throws(w)
       ELSE IF found.found THEN [saved EXCEPT !.ret = found]
       ELSE Returns(w, Absent)

\* load() without its catch
loadRethrows(c, t, w, k) ==
    IF c.storage = "memory" THEN loadFromMemory(c, t, w, k) ELSE loadTry(c, t, w, k)

\* load(key)
load(c, t, w, k) ==
    IF c.storage = "memory" THEN loadFromMemory(c, t, w, k)
    ELSE LET r == loadTry(c, t, w, k)
         IN IF r.threw THEN Returns(w, Absent) ELSE r

\* has(key): load(key) !== null
cacheHas(c, t, w, k) == load(c, t, w, k)

\* clear(key)
cacheClear(c, w, k) ==
    LET m == IF k \in DOMAIN w.cache.memoryCache
             THEN [removeNode(w.cache, k) EXCEPT !.memoryCache = MapDel(@, k), !.currentSize = @ - 1]
             ELSE w.cache
        st == getStorage(c)
    IN IF c.storage # "memory" /\ st = "storage" /\ "removeItem" \notin c.faults
       THEN Returns(World(m, MapDel(w.storage, k)), Absent)
       ELSE Returns(World(m, w.storage), Absent)

\* the keys clearAll() and cleanup() collect from the storage
prefixedKeys(c, s) == {k \in DOMAIN s : startsWith(k, c.storageKey)}

\* clearAll(): the keys are collected first and removed afterwards; a throw of
\* length/key() or of the first removeItem ends the try block
clearAll(c, w) ==
    LET m == [w.cache EXCEPT !.memoryCache = EmptyMap, !.head = NoKey, !.tail = NoKey, !.currentSize = 0]
        st == getStorage(c)
        keys == prefixedKeys(c, w.storage)
    IN IF c.storage # "memory" /\ st = "storage" /\ "key" \notin c.faults
          /\ (keys = {} \/ "removeItem" \notin c.faults)
       THEN Returns(World(m, [k \in (DOMAIN w.storage) \ keys |-> w.storage[k]]), Absent)
       ELSE Returns(World(m, w.storage), Absent)

\* for (const key of keysToDelete) this.clear(key)
RECURSIVE clearEach(_, _, _)
clearEach(c, w, S) ==
    IF S = {} THEN w
    ELSE LET k == CHOOSE x \in S : TRUE
             r == cacheClear(c, w, k)
         IN clearEach(c, World(r.cache, r.storage), S \ {k})

\* what the storage pass of cleanup() removes: strings that do not parse, that
\* parse to null (isValid throws) or whose data is not valid
removable(c, t, raw) ==
    LET d == deserialize(raw)
    IN d.threw \/ d.data = NoData \/ ~isValid(c, t, d.data)

\* cleanup(): returns the number of entries cleaned.  The faults of a storage
\* are lasting, so a failing getItem or removeItem ends the storage pass at
\* its first use and the order of the keys does not matter.
cleanup(c, t, w) ==
    LET keysToDelete == {k \in DOMAIN w.cache.memoryCache : ~isValid(c, t, w.cache.memoryCache[k].value)}
        w1 == clearEach(c, w, keysToDelete)
        st == getStorage(c)
        storageKeys == prefixedKeys(c, w1.storage)
        gone == {k \in storageKeys : removable(c, t, w1.storage[k])}
    IN IF c.storage # "memory" /\ st = "storage" /\ "key" \notin c.faults
          /\ (storageKeys = {} \/ "getItem" \notin c.faults)
          /\ (gone = {} \/ "removeItem" \notin c.faults)
       THEN Returns(World(w1.cache, [k \in (DOMAIN w1.storage) \ gone |-> w1.storage[k]]),
                    Cardinality(keysToDelete) + Cardinality(gone))
       ELSE Returns(w1, Cardinality(keysToDelete))

\* preloadCache(), called by the constructor when config.preload is set
preloadCache(c, t, w) ==
    LET st == getStorage(c)
        raw == MapGet(w.storage, c.storageKey, NoRaw)
        d == deserialize(raw)
    IN IF st = "storage" /\ "getItem" \notin c.faults /\ raw # NoRaw
          /\ ~d.threw /\ d.data # NoData /\ isValid(c, t, d.data)
       THEN Returns(World(setInMemory(c, w.cache, c.storageKey, d.data), w.storage), Absent)
       ELSE Returns(w, Absent)

\* calculateHitRate()
calculateHitRate(m) ==
    LET total == m.hitCount + m.missCount
    IN IF total > 0 THEN Rat(m.hitCount, total) ELSE Zero

\* getStats(): size, maxSize, hitRate, hits and misses
getStats(c, w) ==
    [size |-> w.cache.currentSize, maxSize |-> c.maxSize, hitRate |-> calculateHitRate(w.cache),
     hits |-> w.cache.hitCount, misses |-> w.cache.missCount]

\* getMetadata(): key, timestamp and expired of every entry in memory
getMetadata(c, t, w) ==
    {[key |-> k, timestamp |-> w.cache.memoryCache[k].value.timestamp,
      expired |-> ~isValid(c, t, w.cache.memoryCache[k].value)] : k \in DOMAIN w.cache.memoryCache}

\* ------------------------------------------------- cache: the calls
\* the key becomes the most recently touched one
Touch(recency, k) == SelectSeq(recency, LAMBDA x : x # k) \o <<k>>
Forget(recency, k) == SelectSeq(recency, LAMBDA x : x # k)
InMemoryMode == cfg.storage = "memory"
\* one more call is made on the cache; the calls on a durable cache are counted
CacheCalled == (InMemoryMode \/ steps < MaxCalls) /\ steps' = IF InMemoryMode THEN steps ELSE steps + 1
Applied(r) == cache' = r.cache /\ storage' = r.storage
\* one more load or has is made while the counters are below the bound
Accessed == cache.hitCount + cache.missCount < MaxAccesses

CacheSave(k, p) ==
    /\ CacheCalled
    /\ LET r == save(cfg, now, World(cache, storage), p, k)
       IN /\ Applied(r)
          /\ call' = [op |-> "save", key |-> k, items |-> p, threw |-> r.threw,
                      before |-> [x \in DOMAIN cache.memoryCache |-> cache.memoryCache[x].value.timestamp]]
          /\ hist' = [lastSave |-> [key |-> k, at |-> now],
                      recency |-> IF InMemoryMode THEN Touch(hist.recency, k) ELSE hist.recency,
                      saved |-> IF InMemoryMode THEN hist.saved ELSE hist.saved \cup {k}]
          /\ UNCHANGED <<treeVars, pending, emitter, cfg, now>>

CacheLoad(k) ==
    /\ CacheCalled
    /\ Accessed
    /\ LET r == load(cfg, now, World(cache, storage), k)
           afterSave == call.op = "save" /\ call.key = k
       IN /\ Applied(r)
          /\ call' = [op |-> "load", key |-> k, result |-> r.ret, threw |-> r.threw,
                      afterSave |-> afterSave,
                      saved |-> IF afterSave THEN call.items ELSE <<>>,
                      raw |-> MapGet(storage, k, NoRaw)]
          /\ hist' = [hist EXCEPT !.recency = IF InMemoryMode /\ k \in DOMAIN cache.memoryCache
                                              THEN Touch(@, k) ELSE @]
          /\ UNCHANGED <<treeVars, pending, emitter, cfg, now>>

CacheHas(k) ==
    /\ CacheCalled
    /\ Accessed
    /\ LET r == cacheHas(cfg, now, World(cache, storage), k)
       IN /\ Applied(r)
          /\ call' = [op |-> "has", key |-> k, result |-> r.ret.found, threw |-> r.threw]
          /\ hist' = [hist EXCEPT !.recency = IF InMemoryMode /\ k \in DOMAIN cache.memoryCache
                                              THEN Touch(@, k) ELSE @]
          /\ UNCHANGED <<treeVars, pending, emitter, cfg, now>>

CacheClear(k) ==
    /\ CacheCalled
    /\ LET r == cacheClear(cfg, World(cache, storage), k)
       IN /\ Applied(r)
          /\ call' = [op |-> "clear", key |-> k, threw |-> r.threw]
          /\ hist' = [hist EXCEPT !.recency = Forget(@, k)]
          /\ UNCHANGED <<treeVars, pending, emitter, cfg, now>>

CacheClearAll ==
    /\ CacheCalled
    /\ LET r == clearAll(cfg, World(cache, storage))
       IN /\ Applied(r)
          /\ call' = [op |-> "clearAll", threw |-> r.threw]
          /\ hist' = [hist EXCEPT !.recency = <<>>]
          /\ UNCHANGED <<treeVars, pending, emitter, cfg, now>>

CacheCleanup ==
    /\ CacheCalled
    /\ LET r == cleanup(cfg, now, World(cache, storage))
       IN /\ Applied(r)
          /\ call' = [op |-> "cleanup", result |-> r.ret, threw |-> r.threw, before |-> World(cache, storage)]
          /\ UNCHANGED <<treeVars, pending, emitter, cfg, now, hist>>

CacheGetStats ==
    /\ CacheCalled
    /\ call' = [op |-> "getStats", result |-> getStats(cfg, World(cache, storage)), threw |-> FALSE]
    /\ UNCHANGED <<treeVars, pending, emitter, cfg, cache, storage, now, hist>>

CacheGetMetadata ==
    /\ CacheCalled
    /\ call' = [op |-> "getMetadata", result |-> getMetadata(cfg, now, World(cache, storage)), threw |-> FALSE]
    /\ UNCHANGED <<treeVars, pending, emitter, cfg, cache, storage, now, hist>>

\* time passes between two calls
Tick ==
    /\ now < MaxTime
    /\ now' = now + 1
    /\ call' = [op |-> "tick"]
    /\ UNCHANGED <<treeVars, pending, emitter, steps, cfg, cache, storage, hist>>

\* ------------------------------------------------- cache: the configurations
FaultSets == {{}, {"access"}, {"getItem"}, {"setItem"}, {"removeItem"}, {"key"}}
Environments == {[hasWindow |-> FALSE, faults |-> {}]} \cup {[hasWindow |-> TRUE, faults |-> f] : f \in FaultSets}
Config(st, l, n, b, z, e) ==
    [storage |-> st, storageKey |-> storageKey, ttl |-> l, maxSize |-> n, preload |-> b,
     compress |-> z, compressionThreshold |-> Threshold, hasWindow |-> e.hasWindow, faults |-> e.faults]
MemoryConfigs ==
    {Config("memory", l, n, FALSE, FALSE, [hasWindow |-> TRUE, faults |-> {}]) : l \in {NoTtl, Ttl}, n \in 1..MaxSize}
\* compression is on: the short payload stays under the threshold and is
\* stored as plain JSON, the long one is compressed
DurableConfigs ==
    {Config("localStorage", l, MaxSize, b, TRUE, e) : l \in {NoTtl, Ttl}, b \in BOOLEAN, e \in Environments}

\* what an earlier session left in the storage: a valid entry, an entry of an
\* earlier release, a string that is not JSON, the JSON text `null`
ValidRaw == [mark |-> FALSE, enc |-> "json", data |-> CacheData(<<1, 2>>, 0, CACHE_VERSION)]
StaleRaw == [mark |-> FALSE, enc |-> "json", data |-> CacheData(<<1, 2>>, 0, OldVersion)]
PreloadStore == [k \in Keys |-> CASE k = <<"b">> -> ValidRaw [] k = <<"b", "x">> -> StaleRaw [] OTHER -> Junk]
OtherStore == [k \in Keys |-> CASE k = <<"b">> -> StaleRaw [] k = <<"b", "x">> -> JsonNull [] OTHER -> ValidRaw]
\* a cache that preloads finds its main key in the storage
InitStores(c) ==
    IF c.storage = "memory" \/ ~c.hasWindow THEN {EmptyMap}
    ELSE IF c.preload THEN {PreloadStore} ELSE {EmptyMap, OtherStore}
\* no save has been made by the caller
NoSave == [key |-> NoKey, at |-> 0]
\* the last save of the earlier session was the one of the main key, when the
\* storage holds it
InitLastSave(s) ==
    IF storageKey \in DOMAIN s /\ s[storageKey].data # NoData
    THEN [key |-> storageKey, at |-> s[storageKey].data.timestamp]
    ELSE NoSave

\* new BookmarkCache(config)
constructed(c, t, s) ==
    IF c.preload THEN preloadCache(c, t, World(EmptyCache, s)) ELSE Returns(World(EmptyCache, s), Absent)

NoTreeUse ==
    /\ obj = <<>>
    /\ index = EmptyIndex
    /\ items = <<>>
    /\ state = [selectedId |-> NoId, expandedIds |-> <<>>]
    /\ steps = 0

CacheInitOf(configs) ==
    /\ NoTreeUse
    /\ NoEmitterUse
    /\ cfg \in configs
    /\ now = 0
    /\ \E s \in InitStores(cfg) :
          LET r == constructed(cfg, now, s)
          IN /\ cache = r.cache
             /\ storage = r.storage
             /\ call = [op |-> "constructor", threw |-> r.threw]
             /\ hist = [lastSave |-> InitLastSave(s), recency |-> <<>>, saved |-> {}]
    /\ pending = <<>>

CacheNext ==
    \/ \E k \in Keys, p \in Payloads : CacheSave(k, p)
    \/ \E k \in Keys : CacheLoad(k)
    \/ \E k \in Keys : CacheHas(k)
    \/ \E k \in Keys : CacheClear(k)
    \/ CacheClearAll
    \/ CacheCleanup
    \/ CacheGetStats
    \/ CacheGetMetadata
    \/ Tick

MemoryInit == CacheInitOf(MemoryConfigs)
DurableInit == CacheInitOf(DurableConfigs)
SpecCacheMemory == MemoryInit /\ [][CacheNext]_vars
SpecCacheDurable == DurableInit /\ [][CacheNext]_vars
SpecCache == (MemoryInit \/ DurableInit) /\ [][CacheNext]_vars

\* ------------------------------------------------- cache: getOrSet, getOrSetAsync
\* getOrSetAsync calls made on one cache
MaxPending == 2

\* getOrSet(key, factory), with a factory that returns `made`
getOrSet(c, t, w, k, made) ==
    LET cached == load(c, t, w, k)
    IN IF cached.ret.found THEN cached
       ELSE [save(c, t, World(cached.cache, cached.storage), made, k) EXCEPT !.ret = Found(made)]

\* a getOrSetAsync call is awaiting the promise of its factory for key k
Awaiting(k) == \E i \in DOMAIN pending : pending[i].key = k /\ ~pending[i].done

CacheGetOrSet(k, made) ==
    /\ CacheCalled
    /\ Accessed
    /\ LET r == getOrSet(cfg, now, World(cache, storage), k, made)
           ran == ~load(cfg, now, World(cache, storage), k).ret.found
       IN /\ Applied(r)
          /\ call' = [op |-> "getOrSet", key |-> k, result |-> r.ret, ran |-> ran, threw |-> r.threw]
          /\ hist' = [lastSave |-> IF ran THEN [key |-> k, at |-> now] ELSE hist.lastSave,
                      recency |-> IF InMemoryMode /\ (ran \/ k \in DOMAIN cache.memoryCache)
                                  THEN Touch(hist.recency, k) ELSE hist.recency,
                      saved |-> IF ran /\ ~InMemoryMode THEN hist.saved \cup {k} ELSE hist.saved]
    /\ UNCHANGED <<treeVars, emitter, pending, cfg, now>>

\* getOrSetAsync(key, factory) up to its await: what load(key) finds is
\* returned; when it finds nothing, factory() is called and the call waits
\* for the promise.  `joined` says that another call for the key was waiting.
CacheGetOrSetAsync(k) ==
    /\ CacheCalled
    /\ Accessed
    /\ Len(pending) < MaxPending
    /\ LET r == load(cfg, now, World(cache, storage), k)
       IN /\ Applied(r)
          /\ pending' = Append(pending, [key |-> k, ran |-> ~r.ret.found, done |-> r.ret.found,
                                          items |-> r.ret.items, joined |-> Awaiting(k)])
          /\ call' = [op |-> "getOrSetAsync", key |-> k, cached |-> r.ret, threw |-> r.threw]
          /\ hist' = [hist EXCEPT !.recency = IF InMemoryMode /\ k \in DOMAIN cache.memoryCache
                                              THEN Touch(@, k) ELSE @]
    /\ UNCHANGED <<treeVars, emitter, cfg, now>>

\* the promise of the factory of call i resolves with `made`: the rest of
\* getOrSetAsync saves it under the key and returns it
FactoryResolves(i, made) ==
    /\ i \in DOMAIN pending
    /\ ~pending[i].done
    /\ LET k == pending[i].key
           r == save(cfg, now, World(cache, storage), made, k)
       IN /\ Applied(r)
          /\ pending' = [pending EXCEPT ![i].done = TRUE, ![i].items = made]
          /\ call' = [op |-> "resolve", caller |-> i, key |-> k, items |-> made, threw |-> r.threw]
          /\ hist' = [lastSave |-> [key |-> k, at |-> now],
                      recency |-> IF InMemoryMode THEN Touch(hist.recency, k) ELSE hist.recency,
                      saved |-> IF InMemoryMode THEN hist.saved ELSE hist.saved \cup {k}]
    /\ UNCHANGED <<treeVars, emitter, steps, cfg, now>>

AsyncNext ==
    \/ \E k \in Keys, made \in Payloads : CacheGetOrSet(k, made)
    \/ \E k \in Keys : CacheGetOrSetAsync(k)
    \/ \E i \in 1..MaxPending, made \in Payloads : FactoryResolves(i, made)

SpecCacheAsync == (MemoryInit \/ DurableInit) /\ [][AsyncNext]_vars

\* =====================================================================
\*                          EventEmitter
\* =====================================================================
\* A Set of wrappers and a wrapper are objects: `emitter.sets` and
\* `emitter.wrappers` are their heaps, a reference is a position.  A Set is
\* the sequence of its members in insertion order.  `emitter.handlers` maps
\* an event to its Set, `emitter.timers` holds the timeouts that are set and
\* have neither fired nor been cleared.  JavaScript runs one call at a time,
\* so a public call, with every handler it invokes and every call those
\* handlers make, is one step.

\* subscriptions made on one emitter
MaxSubs == 2
\* public calls made on one emitter
MaxEmitterCalls == 3
\* the clock stops here
MaxClock == 4
\* the delay of a debounced subscription, the interval of a throttled one
DebounceMs == 2
ThrottleMs == 2

\* wrapper.timer / wrapper.lastCall undefined, `handler` not given to off()
NoTimer == 0
NeverCalled == 0
NoHandler == 0

Events == {"e"}
Handlers == {1, 2}
Data == {1, 2}
\* what a handler function does when it is invoked: return, throw, emit the
\* event it received once more (the first time it runs), or remove
\* subscriptions of that event
Behaviours == {"return", "throw", "emit", "off", "offOther", "clear"}
OtherHandler(h) == 3 - h

\* EventHandlerOptions; a missing number is 0, a missing `once` is FALSE
NoOptions == [once |-> FALSE, debounce |-> 0, throttle |-> 0, priority |-> 0]
OptionChoices ==
    {NoOptions,
     [NoOptions EXCEPT !.once = TRUE],
     [NoOptions EXCEPT !.debounce = DebounceMs],
     [NoOptions EXCEPT !.throttle = ThrottleMs],
     [NoOptions EXCEPT !.priority = 1]}

\* new EventEmitter()
EmptyEmitter ==
    [handlers |-> EmptyMap, sets |-> <<>>, wrappers |-> <<>>, timers |-> EmptyMap, timerCount |-> 0]
\* what the handlers and the caller have seen: every invocation of a handler,
\* the emits that reached each subscription, the subscriptions removed by
\* off / unsubscribe / clear, the handlers that have made their one emit, the
\* number of emits whose loop has started and those of them that are running
NoHistory ==
    [calls |-> <<>>, emits |-> EmptyMap, removed |-> {}, acted |-> {}, emitCount |-> 0, running |-> <<>>]

\* clearTimeout(wrapper.timer) for each of the wrappers ws, `if (wrapper.timer)`
clearTimers(e, ws) ==
    [e EXCEPT !.timers = [t \in (DOMAIN @) \ {e.wrappers[w].timer : w \in ws} |-> @[t]]]
\* set.delete(wrapper)
setDelete(e, s, w) == [e EXCEPT !.sets[s] = SelectSeq(@, LAMBDA x : x # w)]
\* if (handlers.size === 0) this.handlers.delete(event)
deleteIfEmpty(e, s, event) ==
    IF Len(e.sets[s]) = 0 THEN [e EXCEPT !.handlers = MapDel(@, event)] ELSE e

\* on(event, handler, options): the world afterwards; the unsubscribe function
\* returned is that of the newest wrapper
on(W, event, handler, options) ==
    LET e1 == IF event \in DOMAIN W.e.handlers THEN W.e
              ELSE [W.e EXCEPT !.sets = Append(@, <<>>),
                               !.handlers = MapSet(@, event, Len(W.e.sets) + 1)]
        s == e1.handlers[event]
        w == Len(e1.wrappers) + 1
        wrapper == [handler |-> handler, options |-> options, timer |-> NoTimer,
                    lastCall |-> NeverCalled, event |-> event, set |-> s]
    IN [W EXCEPT !.e = [e1 EXCEPT !.wrappers = Append(@, wrapper), !.sets[s] = Append(@, w)]]

\* once(event, handler, options)
once(W, event, handler, options) == on(W, event, handler, [options EXCEPT !.once = TRUE])

\* the function returned by on(): it holds the wrapper, the Set it was added
\* to and the event
unsubscribe(W, w) ==
    LET wrapper == W.e.wrappers[w]
        e1 == clearTimers(W.e, {w})
        e2 == setDelete(e1, wrapper.set, w)
    IN [W EXCEPT !.e = deleteIfEmpty(e2, wrapper.set, wrapper.event),
                 !.h.removed = @ \cup {w}]

\* off(event, handler?)
off(W, event, handler) ==
    IF event \notin DOMAIN W.e.handlers THEN W
    ELSE LET s == W.e.handlers[event]
         IN IF handler = NoHandler
            THEN [W EXCEPT !.e = [clearTimers(W.e, Range(W.e.sets[s])) EXCEPT !.handlers = MapDel(@, event)],
                           !.h.removed = @ \cup Range(W.e.sets[s])]
            ELSE LET gone == {w \in Range(W.e.sets[s]) : W.e.wrappers[w].handler = handler}
                     e1 == clearTimers(W.e, gone)
                     e2 == [e1 EXCEPT !.sets[s] = SelectSeq(@, LAMBDA x : x \notin gone)]
                 IN [W EXCEPT !.e = deleteIfEmpty(e2, s, event), !.h.removed = @ \cup gone]

\* clear()
clearEmitter(W) ==
    LET all == UNION {Range(W.e.sets[W.e.handlers[ev]]) : ev \in DOMAIN W.e.handlers}
    IN [W EXCEPT !.e = [clearTimers(W.e, all) EXCEPT !.handlers = EmptyMap],
                 !.h.removed = @ \cup all]

\* listenerCount(event)
listenerCount(e, event) == IF event \in DOMAIN e.handlers THEN Len(e.sets[e.handlers[event]]) ELSE 0

\* Array.from(handlers).sort((a, b) => priorityB - priorityA): stable
RECURSIVE insertByPriority(_, _, _)
insertByPriority(e, sorted, w) ==
    IF sorted = <<>> THEN <<w>>
    ELSE IF e.wrappers[w].options.priority <= e.wrappers[Head(sorted)].options.priority
    THEN <<Head(sorted)>> \o insertByPriority(e, Tail(sorted), w)
    ELSE <<w>> \o sorted
\* Array.from(handlers) without the sort
arrayFrom(e, ws) == ws
RECURSIVE sortByPriority(_, _)
sortByPriority(e, ws) ==
    IF ws = <<>> THEN <<>>
    ELSE insertByPriority(e, sortByPriority(e, SubSeq(ws, 1, Len(ws) - 1)), Last(ws))

RECURSIVE emit(_, _, _)
RECURSIVE emitLoop(_, _, _, _, _, _)
RECURSIVE executeHandler(_, _, _, _, _)
RECURSIVE callHandler(_, _, _, _, _, _)
RECURSIVE runHandler(_, _, _, _, _)

\* handler(data): the invocation is recorded, then the function does what
\* cfg.behaviour says.  [W |-> the world afterwards, threw |-> it threw]
runHandler(W, w, data, event, sync) ==
    LET h == W.e.wrappers[w].handler
        entry == [wrapper |-> w, data |-> data, at |-> now, sync |-> sync,
                  emit |-> IF sync THEN Last(W.h.running) ELSE 0,
                  removed |-> w \in W.h.removed,
                  seen |-> Len(MapGet(W.h.emits, w, <<>>))]
        W1 == [W EXCEPT !.h.calls = Append(@, entry)]
        b == cfg.behaviour[h]
    IN CASE b = "throw" -> [W |-> W1, threw |-> TRUE]
         [] b = "emit" ->
              IF h \in W1.h.acted THEN [W |-> W1, threw |-> FALSE]
              ELSE LET W2 == emit([W1 EXCEPT !.h.acted = @ \cup {h}], event, data)
                   IN [W |-> [W2 EXCEPT !.threw = FALSE], threw |-> W2.threw]
         [] b = "off" -> [W |-> off(W1, event, NoHandler), threw |-> FALSE]
         [] b = "offOther" -> [W |-> off(W1, event, OtherHandler(h)), threw |-> FALSE]
         [] b = "clear" -> [W |-> clearEmitter(W1), threw |-> FALSE]
         [] OTHER -> [W |-> W1, threw |-> FALSE]

\* callHandler() without the try / catch around handler(data)
callHandlerRethrows(W, w, data, event, s, sync) ==
    LET r == runHandler(W, w, data, event, sync)
    IN IF r.threw THEN [r.W EXCEPT !.threw = TRUE]
       ELSE IF r.W.e.wrappers[w].options.once
       THEN [r.W EXCEPT !.e = deleteIfEmpty(setDelete(clearTimers(@, {w}), s, w), s, event)]
       ELSE r.W

\* callHandler(handler, data, event, wrapper, handlers): `handlers` is the Set
\* s; what the handler throws is caught and logged
callHandler(W, w, data, event, s, sync) ==
    LET r == runHandler(W, w, data, event, sync)
    IN IF r.threw THEN r.W
       ELSE IF r.W.e.wrappers[w].options.once
       THEN [r.W EXCEPT !.e = deleteIfEmpty(setDelete(clearTimers(@, {w}), s, w), s, event)]
       ELSE r.W

\* executeHandler() whose debounce branch sets a timeout without clearing the
\* one that is pending
executeHandlerKeepsTimer(W, w, data, event, s) ==
    LET options == W.e.wrappers[w].options
        W1 == [W EXCEPT !.h.emits = MapSet(@, w, Append(MapGet(@, w, <<>>), [at |-> now, data |-> data]))]
        t == W1.e.timerCount + 1
    IN IF options.debounce # 0
       THEN [W1 EXCEPT !.e.timerCount = t,
                       !.e.timers = MapSet(@, t, [due |-> now + options.debounce, wrapper |-> w,
                                                  data |-> data, event |-> event, set |-> s]),
                       !.e.wrappers[w].timer = t]
       ELSE callHandler(W1, w, data, event, s, TRUE)

\* executeHandler() whose throttle test also drops the emit that comes exactly
\* options.throttle after the last accepted one
executeHandlerDropsAtInterval(W, w, data, event, s) ==
    LET options == W.e.wrappers[w].options
        W1 == [W EXCEPT !.h.emits = MapSet(@, w, Append(MapGet(@, w, <<>>), [at |-> now, data |-> data]))]
    IN IF options.debounce # 0
       THEN LET e1 == clearTimers(W1.e, {w})
                t == e1.timerCount + 1
            IN [W1 EXCEPT !.e = [e1 EXCEPT
                   !.timerCount = t,
                   !.timers = MapSet(@, t, [due |-> now + options.debounce, wrapper |-> w,
                                            data |-> data, event |-> event, set |-> s]),
                   !.wrappers[w].timer = t]]
       ELSE IF options.throttle # 0
       THEN LET lastCall == W1.e.wrappers[w].lastCall
            IN IF lastCall # NeverCalled /\ now - lastCall <= options.throttle
               THEN W1
               ELSE callHandler([W1 EXCEPT !.e.wrappers[w].lastCall = now], w, data, event, s, TRUE)
       ELSE callHandler(W1, w, data, event, s, TRUE)

\* executeHandler(wrapper, data, event, handlers)
executeHandler(W, w, data, event, s) ==
    LET options == W.e.wrappers[w].options
        W1 == [W EXCEPT !.h.emits = MapSet(@, w, Append(MapGet(@, w, <<>>), [at |-> now, data |-> data]))]
    IN IF options.debounce # 0
       THEN LET e1 == clearTimers(W1.e, {w})
                t == e1.timerCount + 1
            IN [W1 EXCEPT !.e = [e1 EXCEPT
                   !.timerCount = t,
                   !.timers = MapSet(@, t, [due |-> now + options.debounce, wrapper |-> w,
                                            data |-> data, event |-> event, set |-> s]),
                   !.wrappers[w].timer = t]]
       ELSE IF options.throttle # 0
       THEN LET lastCall == W1.e.wrappers[w].lastCall
            IN IF lastCall # NeverCalled /\ now - lastCall < options.throttle
               THEN W1
               ELSE callHandler([W1 EXCEPT !.e.wrappers[w].lastCall = now], w, data, event, s, TRUE)
       ELSE callHandler(W1, w, data, event, s, TRUE)

\* sortedHandlers.forEach(wrapper => executeHandler(...)) from position i on;
\* an exception that reaches the loop ends it
emitLoop(W, sortedHandlers, i, data, event, s) ==
    IF i > Len(sortedHandlers) \/ W.threw THEN W
    ELSE emitLoop(executeHandler(W, sortedHandlers[i], data, event, s), sortedHandlers, i + 1, data, event, s)

\* emit(event, data)
emit(W, event, data) ==
    IF event \notin DOMAIN W.e.handlers THEN W
    ELSE LET s == W.e.handlers[event]
         IN IF Len(W.e.sets[s]) = 0 THEN W
            ELSE LET n == W.h.emitCount + 1
                     W1 == [W EXCEPT !.h.emitCount = n, !.h.running = Append(@, n)]
                     W2 == emitLoop(W1, sortByPriority(W.e, W.e.sets[s]), 1, data, event, s)
                 IN [W2 EXCEPT !.h.running = SubSeq(@, 1, Len(@) - 1)]

\* ------------------------------------------------- emitter: the calls
EmWorld == [e |-> emitter, h |-> hist, threw |-> FALSE]
EmApplied(W) == emitter' = W.e /\ hist' = W.h
EmCalled ==
    /\ steps < cfg.calls
    /\ steps' = steps + 1
    /\ UNCHANGED <<treeVars, pending, cfg, cache, storage, now>>

EmOn(event, handler, options) ==
    /\ EmCalled
    /\ Len(emitter.wrappers) < MaxSubs
    /\ EmApplied(on(EmWorld, event, handler, options))
    /\ call' = [op |-> "on", event |-> event, handler |-> handler, options |-> options]

EmOnce(event, handler) ==
    /\ EmCalled
    /\ Len(emitter.wrappers) < MaxSubs
    /\ EmApplied(once(EmWorld, event, handler, NoOptions))
    /\ call' = [op |-> "once", event |-> event, handler |-> handler]

EmOff(event, handler) ==
    /\ EmCalled
    /\ EmApplied(off(EmWorld, event, handler))
    /\ call' = [op |-> "off", event |-> event, handler |-> handler]

\* the caller runs the function on() returned for the subscription w
EmUnsubscribe(w) ==
    /\ EmCalled
    /\ EmApplied(unsubscribe(EmWorld, w))
    /\ call' = [op |-> "unsubscribe", wrapper |-> w]

EmClear ==
    /\ EmCalled
    /\ EmApplied(clearEmitter(EmWorld))
    /\ call' = [op |-> "clear"]

EmEmit(event, data) ==
    /\ EmCalled
    /\ LET W == emit(EmWorld, event, data)
           s == MapGet(emitter.handlers, event, NoRef)
       IN /\ EmApplied(W)
          /\ call' = [op |-> "emit", event |-> event, data |-> data, threw |-> W.threw,
                       emit |-> IF s = NoRef THEN 0 ELSE hist.emitCount + 1,
                       subscribed |-> IF s = NoRef THEN <<>> ELSE emitter.sets[s]]

\* the timeout t is due: its callback runs callHandler with what it captured
TimerFires(t) ==
    /\ emitter.timers[t].due <= now
    /\ LET timer == emitter.timers[t]
           W == [EmWorld EXCEPT !.e.timers = MapDel(@, t)]
       IN EmApplied(callHandler(W, timer.wrapper, timer.data, timer.event, timer.set, FALSE))
    /\ call' = [op |-> "timer", timer |-> t]
    /\ UNCHANGED <<treeVars, pending, steps, cfg, cache, storage, now>>

\* the clock is read by setTimeout and by the throttle test only
TimeMatters ==
    \/ emitter.timers # EmptyMap
    \/ \E w \in DOMAIN emitter.wrappers : emitter.wrappers[w].lastCall # NeverCalled

\* a millisecond passes; a timeout that is due runs before the clock moves on
EmTick ==
    /\ now < MaxClock
    /\ TimeMatters
    /\ \A t \in DOMAIN emitter.timers : emitter.timers[t].due > now
    /\ now' = now + 1
    /\ call' = [op |-> "tick"]
    /\ UNCHANGED <<treeVars, pending, steps, cfg, cache, storage, hist, emitter>>

\* Date.now() is positive; the first handler function does one of the
\* Behaviours, the second returns
EmitterInit ==
    /\ NoTreeUse
    /\ cfg \in {[storage |-> "none", calls |-> MaxEmitterCalls,
                 behaviour |-> [h \in Handlers |-> IF h = 1 THEN b ELSE "return"]] : b \in Behaviours}
    /\ cache = [memoryCache |-> EmptyMap]
    /\ storage = EmptyMap
    /\ now = 1
    /\ hist = NoHistory
    /\ pending = <<>>
    /\ emitter = EmptyEmitter
    /\ call = NoCall

EmitterNext ==
    \/ \E event \in Events, handler \in Handlers, options \in OptionChoices : EmOn(event, handler, options)
    \/ \E event \in Events, handler \in Handlers : EmOnce(event, handler)
    \/ \E event \in Events, handler \in Handlers \cup {NoHandler} : EmOff(event, handler)
    \/ \E w \in DOMAIN emitter.wrappers : EmUnsubscribe(w)
    \/ EmClear
    \/ \E event \in Events, data \in Data : EmEmit(event, data)
    \/ \E t \in DOMAIN emitter.timers : TimerFires(t)
    \/ EmTick

SpecEmitter == EmitterInit /\ [][EmitterNext]_vars

\* subscriptions made again after off / clear: both handler functions return
\* and no subscription has options, which leaves room for one more call
MaxResubCalls == 4
ResubscribeInit ==
    /\ NoTreeUse
    /\ cfg = [storage |-> "none", calls |-> MaxResubCalls, behaviour |-> [h \in Handlers |-> "return"]]
    /\ cache = [memoryCache |-> EmptyMap]
    /\ storage = EmptyMap
    /\ now = 1
    /\ hist = NoHistory
    /\ pending = <<>>
    /\ emitter = EmptyEmitter
    /\ call = NoCall

ResubscribeNext ==
    \/ \E event \in Events, handler \in Handlers : EmOn(event, handler, NoOptions)
    \/ \E event \in Events, handler \in Handlers : EmOnce(event, handler)
    \/ \E event \in Events, handler \in Handlers \cup {NoHandler} : EmOff(event, handler)
    \/ \E w \in DOMAIN emitter.wrappers : EmUnsubscribe(w)
    \/ EmClear
    \/ \E event \in Events, data \in Data : EmEmit(event, data)

SpecResubscribe == ResubscribeInit /\ [][ResubscribeNext]_vars

\* ------------------------------------------------- index: the claims

\* C1: after delete(folderId, true) on an indexed folder, no descendant of the
\* folder (direct child or deeper, however many children) is indexed any
\* more: has(d) is false and get(d) is absent.
C1_DeleteRemovesDescendants ==
    (call.op = "delete" /\ call.recursive /\ call.ref # NoRef /\ isFolder(obj[call.ref]))
        => \A d \in DescObjs(obj, call.ref) :
              obj[d].id # NoId => (~has(index, obj[d].id) /\ get(index, obj[d].id) = NoRef)

\* ids of the non-separator items of a tree
NonSeparatorIds(h, list) == {h[o].id : o \in {x \in TreeObjs(h, list) : ~isSeparator(h[x])}}

C2_IndexAgreesWithTree ==
    /\ \A id \in 1..Len(obj) : (getById(index, id) # NoRef) <=> (id \in TreeIds(obj, items))
    /\ call.op \in {"add", "addFolder"} => getById(index, call.id) # NoRef

\* ------------------------------------------------- cache: the claims
\* the backend takes writes and gives them back
WorkingBackend ==
    \/ cfg.storage = "memory" /\ cfg.maxSize >= 1
    \/ cfg.storage # "memory" /\ cfg.hasWindow /\ cfg.faults \cap {"access", "setItem", "getItem"} = {}

\* C3: with a working backend, save(p, k) followed immediately by load(k)
\* (no time passes, so no ttl has elapsed) returns a payload equal to p,
\* whatever was saved, loaded or cleared before.
C3_SaveThenLoad ==
    (call.op = "load" /\ call.afterSave /\ WorkingBackend)
        => call.result = Found(call.saved)

\* a compressed payload saved at a later time than the construction, on a
\* durable cache with a ttl, and loaded back
C3_Witness ==
    /\ call.op = "load" /\ call.afterSave /\ WorkingBackend
    /\ cfg.storage # "memory" /\ cfg.ttl > 0
    /\ now > 0 /\ hist.lastSave.at = now
    /\ call.raw.mark
    /\ call.saved = <<1, 2>>
    /\ call.result = Found(call.saved)

\* the durable backend does not take the write
WriteNotTaken ==
    cfg.storage # "memory" /\ (~cfg.hasWindow \/ cfg.faults \cap {"access", "setItem"} # {})

\* C4: whenever the durable backend does not take the write, save(p, k)
\* returns normally and p is held in the in-memory LRU under k afterwards.
C4_SaveFallsBackToMemory ==
    (call.op = "save" /\ WriteNotTaken)
        => /\ ~call.threw
           /\ call.key \in DOMAIN cache.memoryCache
           /\ cache.memoryCache[call.key].value.items = call.items

\* C5: currentSize is the number of keys of the in-memory map and at most
\* maxSize after every operation; a save of a key already in memory leaves
\* the keys as they are, an insert below capacity adds the key only, and an
\* insert at capacity evicts exactly one entry.
C5_SizeBounded ==
    /\ cache.currentSize = Cardinality(DOMAIN cache.memoryCache)
    /\ cache.currentSize <= cfg.maxSize
    /\ call.op = "save" =>
          LET keysBefore == DOMAIN call.before
              keysAfter == DOMAIN cache.memoryCache
          IN IF call.key \in keysBefore \/ call.key \notin keysAfter
             THEN keysAfter = keysBefore
             ELSE IF Cardinality(keysBefore) < cfg.maxSize
             THEN keysAfter = keysBefore \cup {call.key}
             ELSE /\ Cardinality(keysBefore \ keysAfter) = 1
                  /\ keysAfter \ keysBefore = {call.key}

\* the keys an insert has evicted
Evicted == (DOMAIN call.before \cup {call.key}) \ DOMAIN cache.memoryCache

\* an insert into a full cache of more than one entry has evicted one
C5_Witness ==
    /\ call.op = "save"
    /\ cfg.maxSize > 1
    /\ Cardinality(DOMAIN call.before) = cfg.maxSize
    /\ Cardinality(Evicted) = 1
    /\ cache.currentSize = cfg.maxSize

\* C6: in memory mode the entry evicted on overflow is the key whose most
\* recent touch is the oldest among the cached keys, a touch being a save of
\* the key or a load/has that finds the key in memory.
C6_EvictsLeastRecentlyTouched ==
    (call.op = "save" /\ InMemoryMode /\ Evicted # {})
        => Evicted = {Head(SelectSeq(hist.recency, LAMBDA x : x \in DOMAIN call.before))}

\* the evicted entry was saved later than a surviving one: the survivor had
\* been touched by a load in between
C6_Witness ==
    /\ call.op = "save" /\ InMemoryMode
    /\ \E e \in Evicted : \E k \in DOMAIN call.before \ Evicted : call.before[k] < call.before[e]

\* C7: with ttl > 0 an entry saved by the caller at time s is reported absent
\* by every load at a time t with t - s > ttl, whatever loads happened in
\* between: a load that returns the payload of the key last saved is made
\* within ttl of that save.
C7_ExpiresAfterTtl ==
    (call.op = "load" /\ cfg.ttl > 0 /\ hist.lastSave.key = call.key /\ call.result.found)
        => now - hist.lastSave.at <= cfg.ttl

\* a stored string that parses to an entry of another version
StaleEntry(raw) ==
    LET d == deserialize(raw)
    IN ~d.threw /\ d.data # NoData /\ d.data.version # CACHE_VERSION

\* C8: load(k) is absent for a stored entry whose version differs from the
\* current one and leaves the raw entry in the backend; no entry of another
\* version is held in memory.
C8_StaleVersionIsAbsent ==
    /\ (call.op = "load" /\ StaleEntry(call.raw))
          => (~call.result.found /\ MapGet(storage, call.key, NoRaw) = call.raw)
    /\ \A k \in DOMAIN cache.memoryCache : cache.memoryCache[k].value.version = CACHE_VERSION

\* a load that read an entry of the earlier release from a healthy storage
C8_Witness ==
    /\ call.op = "load" /\ StaleEntry(call.raw)
    /\ cfg.hasWindow /\ cfg.faults = {}
    /\ ~call.result.found
    /\ storage[call.key] = call.raw

CacheOps == {"constructor", "save", "load", "has", "clear", "clearAll", "cleanup", "getStats", "getMetadata"}
\* the read of load() fails: the storage throws, or holds a string that is
\* not the JSON of an entry
ReadFails(raw) ==
    /\ cfg.storage # "memory" /\ cfg.hasWindow
    /\ \/ cfg.faults \cap {"access", "getItem"} # {}
       \/ raw # NoRaw /\ (deserialize(raw).threw \/ deserialize(raw).data = NoData)

\* C9: no public cache operation throws to its caller, whatever the storage
\* throws or holds; a failing read yields absent.
C9_NeverThrows ==
    call.op \in CacheOps =>
        /\ ~call.threw
        /\ (call.op = "load" /\ ReadFails(call.raw)) => ~call.result.found

\* a load from a storage whose getItem throws, over a key that is stored
C9_Witness ==
    /\ call.op = "load"
    /\ cfg.faults = {"getItem"}
    /\ call.raw # NoRaw
    /\ ~call.threw /\ ~call.result.found

\* the children of an object that carry an id, in the order of its array
IdBearing(h, list) == SelectSeq(list, LAMBDA o : getItemId(h[o]) # NoId)

\* C11: after build(tree), getChildren(id) is the list of the direct children
\* with an id, in the order of the children array, for every folder of the
\* tree at every depth; it is empty for a folder without such children, for
\* a bookmark or separator, and for an id the tree does not hold.
C11_GetChildrenAfterBuild ==
    call.op = "build" =>
        \A id \in 0..(MaxObj + 1) :
            getChildren(index, id) =
                IF \E o \in TreeObjs(obj, call.list) : getItemId(obj[o]) = id /\ isFolder(obj[o])
                THEN LET o == CHOOSE q \in TreeObjs(obj, call.list) : getItemId(obj[q]) = id
                     IN IdBearing(obj, obj[o].children)
                ELSE <<>>

\* a folder nested in a folder, with a child of its own, has been built
C11_Witness ==
    /\ call.op = "build"
    /\ \E o \in TreeObjs(obj, call.list) :
          /\ isFolder(obj[o])
          /\ getParentId(index, getItemId(obj[o])) # NoId
          /\ Len(getChildren(index, getItemId(obj[o]))) > 0

\* what update(id, item) leaves alone whatever the reading of the claim: the
\* place of id in the tree and the items of the other ids
UpdateKeepsPlace(ix, ix2, id) ==
    /\ getParentId(ix2, id) = getParentId(ix, id)
    /\ getParentIds(ix2, id) = getParentIds(ix, id)
    /\ getPath(ix2, id) = getPath(ix, id)
    /\ \A j \in (0..(MaxObj + 1)) \ {id} : get(ix2, j) = get(ix, j)

\* C12 as stated: update(id, item) on an indexed id makes get(id) return item
\* and leaves getParentId(id), getParentIds(id), getPath(id), getChildren(f)
\* of every folder f and get(j) of every other id as they were; on an id
\* that is not indexed it changes nothing.
C12_UpdateFrame ==
    [][call'.op = "update" =>
         IF has(index, call'.id)
         THEN /\ get(index', call'.id) = call'.item
              /\ UpdateKeepsPlace(index, index', call'.id)
              /\ \A f \in 0..(MaxObj + 1) : getChildren(index', f) = getChildren(index, f)
         ELSE index' = index]_vars

\* a list of items with the object `old` replaced by the object `new`
Replaced(list, old, new) == [i \in DOMAIN list |-> IF list[i] = old THEN new ELSE list[i]]

\* C12 (amended): as C12, but getChildren(f) of every folder keeps its ids and
\* their order while the entry of id in the list of its parent is the new
\* item.
C12_UpdateFrameOfIds ==
    [][call'.op = "update" =>
         IF has(index, call'.id)
         THEN /\ get(index', call'.id) = call'.item
              /\ UpdateKeepsPlace(index, index', call'.id)
              /\ index'.childrenIndex = index.childrenIndex
              /\ \A f \in 0..(MaxObj + 1) :
                    getChildren(index', f) = Replaced(getChildren(index, f), get(index, call'.id), call'.item)
         ELSE index' = index]_vars

\* an item nested in a folder has been replaced by another object
C12_Witness ==
    /\ call.op = "update"
    /\ call.ref # NoRef /\ call.item # call.ref
    /\ get(index, call.id) = call.item
    /\ getParentId(index, call.id) # NoId
    /\ call.item \in Range(getChildren(index, getParentId(index, call.id)))

\* the tags a caller can ask for
TagNames == {"a", "A", "b", "B", "c"}
\* the url of an item as the url index sees it
IndexedUrl(item) == IF isBookmark(item) THEN item.url ELSE NoUrl
\* no two of the given objects are bookmarks with the same url
UniqueUrls(h, refs) ==
    \A p, q \in refs : (p # q /\ IndexedUrl(h[p]) # NoUrl) => IndexedUrl(h[p]) # IndexedUrl(h[q])
\* the objects the index holds
IndexedObjs(ix) == {ix.itemMap[id] : id \in DOMAIN ix.itemMap}

\* an update of an indexed id with another object, the urls being unique
\* among the items indexed before it and among those indexed after it
UpdatedWithUniqueUrls ==
    /\ call.op = "update" /\ call.ref # NoRef /\ call.item # call.ref
    /\ UniqueUrls(obj, IndexedObjs(index))
    /\ UniqueUrls(obj, (IndexedObjs(index) \ {call.item}) \cup {call.ref})

\* C13: after update(id, item) with item another object than the stored one
\* and unique urls, findByTag(t) holds item exactly for the tags t of item
\* (compared in lower case), hasUrl(old url) is false when the url changed,
\* and findByUrl(new url) is item.
C13_UpdateReindexesTagsAndUrl ==
    UpdatedWithUniqueUrls =>
        LET item == obj[call.item]
            oldItem == obj[call.ref]
        IN /\ \A t \in TagNames :
                 (call.item \in findByTag(index, t))
                     <=> (\E i \in DOMAIN item.tags : toLowerCase(item.tags[i]) = toLowerCase(t))
           /\ (IndexedUrl(oldItem) # NoUrl /\ IndexedUrl(oldItem) # IndexedUrl(item))
                 => ~hasUrl(index, IndexedUrl(oldItem))
           /\ IndexedUrl(item) # NoUrl => findByUrl(index, IndexedUrl(item)) = call.item

\* a bookmark that lost a tag and changed its url has been updated while
\* another bookmark is indexed
C13_Witness ==
    /\ UpdatedWithUniqueUrls
    /\ Len(obj[call.item].tags) < Len(obj[call.ref].tags)
    /\ IndexedUrl(obj[call.ref]) # NoUrl
    /\ IndexedUrl(obj[call.item]) # IndexedUrl(obj[call.ref])
    /\ findByUrl(index, IndexedUrl(obj[call.item])) = call.item
    /\ \E o \in IndexedObjs(index) \ {call.item} : isBookmark(obj[o])

\* the tag lists a caller asks findByTags for: none, one tag (indexed, in
\* another case, never seen), two and three tags in either order, a tag twice
TagLists ==
    {<<>>, <<"a">>, <<"B">>, <<"c">>, <<"a", "B">>, <<"B", "a">>, <<"A", "c">>,
     <<"c", "b">>, <<"a", "A">>, <<"b", "a", "B">>}

\* C14: findByTags(tags) is the set of the items findByTag returns for every
\* tag of tags (tags compared in lower case); it is empty for no tags, for a
\* tag the index never saw and for a tag that has no item any more.
C14_FindByTagsIsIntersection ==
    \A tags \in TagLists :
        /\ findByTags(index, tags) =
              IF tags = <<>> THEN {}
              ELSE {o \in IndexedObjs(index) : \A i \in DOMAIN tags : o \in findByTag(index, tags[i])}
        /\ (\E i \in DOMAIN tags : findByTag(index, tags[i]) = {}) => findByTags(index, tags) = {}

\* a tag given in another case than indexed still has an item while a second
\* tag, known to the index, has lost its last item: the two select nothing
C14_Witness ==
    /\ findByTag(index, "B") # {}
    /\ "a" \in DOMAIN index.tagIndex /\ index.tagIndex["a"] = {}
    /\ findByTags(index, <<"B">>) = findByTag(index, "b")
    /\ findByTags(index, <<"B", "a">>) = {}

\* the items of the index that search(query, options) may return: those that
\* pass the type filter and have a searched field with a positive score
PassesFilter(item, options) ==
    /\ options.bookmarksOnly => isBookmark(item)
    /\ options.foldersOnly => isFolder(item)
FieldMatches(item, field, query, options) ==
    LET q == IF options.caseSensitive THEN query ELSE lowerCase(query)
    IN /\ field \in options.searchIn
       /\ CASE field = "title" -> item.title # NoText /\ RLess(Zero, fieldScore(q, Text(item.title), options))
            [] field = "url" -> isBookmark(item) /\ item.url # NoUrl /\ RLess(Zero, fieldScore(q, Text(item.url), options))
            [] field = "tags" -> tagsMatch(q, item.tags, options)
            [] field = "description" -> item.description # NoText /\ RLess(Zero, fieldScore(q, Text(item.description), options))
Candidates(query, options) ==
    {o \in IndexedObjs(index) :
        PassesFilter(obj[o], options) /\ \E f \in Range(Fields) : FieldMatches(obj[o], f, query, options)}
\* the score search gives an item
ScoreOf(o, query, options) ==
    searchItem(obj, o, IF options.caseSensitive THEN query ELSE lowerCase(query), options).score

\* C15: search(query, options) returns at most limit results, in
\* non-increasing order of score, without repeating an item; the results are
\* items that pass the type filter and match in a searched field, as many of
\* them as the limit allows, and an item left out scores no more than the
\* last result.
C15_SearchRanksAndLimits ==
    call.op = "search" =>
        LET results == call.results
            returned == {results[i].item : i \in DOMAIN results}
            candidates == Candidates(call.query, call.options)
        IN /\ Len(results) <= call.options.limit
           /\ \A i \in 1..(Len(results) - 1) : RLeq(results[i + 1].score, results[i].score)
           /\ Cardinality(returned) = Len(results)
           /\ returned \subseteq candidates
           /\ Len(results) = IF Cardinality(candidates) < call.options.limit
                             THEN Cardinality(candidates) ELSE call.options.limit
           /\ \A i \in DOMAIN results : results[i].score = ScoreOf(results[i].item, call.query, call.options)
           /\ \A o \in candidates \ returned :
                 \A i \in DOMAIN results : RLeq(ScoreOf(o, call.query, call.options), results[i].score)

\* the limit has cut off a match that was indexed first and scores less
C15_Witness ==
    /\ call.op = "search"
    /\ call.options.limit = 1
    /\ Len(call.results) = 1
    /\ \E o \in Candidates(call.query, call.options) :
          /\ o < call.results[1].item
          /\ RLess(ScoreOf(o, call.query, call.options), call.results[1].score)

\* C16: the score of every result of search is between 0 and 1.
C16_ScoreInUnitRange ==
    call.op = "search" =>
        \A i \in DOMAIN call.results :
            RLeq(Zero, call.results[i].score) /\ RLeq(call.results[i].score, One)

\* the characters of query occur in text in order
IsSubsequence(query, text) ==
    \E at \in [DOMAIN query -> DOMAIN text] :
        /\ \A i \in DOMAIN query : text[at[i]] = query[i]
        /\ \A i, j \in DOMAIN query : i < j => at[i] < at[j]

\* C17: fuzzyMatch(query, text) is above 0 exactly when the query is not
\* empty and is a subsequence of the text; 'gh' scores above 0 against
\* 'github' and 'xz' scores 0.
C17_FuzzyScoresSubsequences ==
    call.op = "fuzzyMatch" =>
        /\ RLeq(Zero, call.score)
        /\ RLess(Zero, call.score) <=> (call.query # <<>> /\ IsSubsequence(call.query, call.text))
        /\ (call.text = <<"g", "i", "t", "h", "u", "b">> /\ call.query = <<"g", "h">>) => RLess(Zero, call.score)
        /\ (call.text = <<"g", "i", "t", "h", "u", "b">> /\ call.query = <<"x", "z">>) => call.score = Zero

\* a query whose characters are in the text, but not next to each other
C17_Witness ==
    /\ call.op = "fuzzyMatch"
    /\ Len(call.query) > 1
    /\ IsSubsequence(call.query, call.text)
    /\ indexOf(call.text, call.query) = -1
    /\ RLess(Zero, call.score)

\* ------------------------------------------------- emitter: the claims
\* the invocations of the handler of subscription w, as positions of hist.calls
CallsOf(w) == {k \in DOMAIN hist.calls : hist.calls[k].wrapper = w}
\* emit(event) and listenerCount(event) see the subscription w
Subscribed(w) ==
    LET event == emitter.wrappers[w].event
    IN event \in DOMAIN emitter.handlers /\ w \in Range(emitter.sets[emitter.handlers[event]])

\* C18: the handler of a once subscription is invoked at most once, and the
\* subscription is not counted by listenerCount once it has been invoked,
\* whether the handler returned or threw and whatever it did.
C18_OnceInvokedAtMostOnce ==
    \A w \in DOMAIN emitter.wrappers :
        emitter.wrappers[w].options.once =>
            /\ Cardinality(CallsOf(w)) <= 1
            /\ CallsOf(w) # {} => ~Subscribed(w)

\* C19: no handler is invoked for a subscription that off(event),
\* off(event, handler), its unsubscribe function or clear() has removed, be
\* it by a timeout, by a later emit or by the emit that is running.
C19_RemovedNeverInvoked ==
    \A k \in DOMAIN hist.calls : ~hist.calls[k].removed

\* the emits that reached subscription w, and the invocations made for the
\* i-th of them
EmitsTo(w) == MapGet(hist.emits, w, <<>>)
CallsFor(w, i) == {k \in CallsOf(w) : hist.calls[k].seen = i}

\* C20: for a subscription with debounce d > 0, every invocation is made by
\* a timeout, d after the last emit before it and with the data of that
\* emit; an emit followed by another one less than d later gets no
\* invocation, and an emit that is the last one or is followed by the next
\* more than d later gets exactly one, as long as the subscription is kept.
C20_DebounceFiresOncePerBurst ==
    \A w \in DOMAIN emitter.wrappers :
        LET d == emitter.wrappers[w].options.debounce
            E == EmitsTo(w)
        IN d > 0 =>
            /\ \A k \in CallsOf(w) :
                  LET c == hist.calls[k]
                  IN /\ ~c.sync
                     /\ c.seen \in DOMAIN E
                     /\ c.at = E[c.seen].at + d
                     /\ c.data = E[c.seen].data
            /\ \A i \in DOMAIN E :
                  /\ Cardinality(CallsFor(w, i)) <= 1
                  /\ (i < Len(E) /\ E[i + 1].at - E[i].at < d) => CallsFor(w, i) = {}
                  /\ (/\ w \notin hist.removed
                      /\ i = Len(E) \/ E[i + 1].at - E[i].at > d
                      /\ now > E[i].at + d) => CallsFor(w, i) # {}

\* two emits less than d apart with different data, and the one invocation
\* that followed them, d after the second and with its data
C20_Witness ==
    \E w \in DOMAIN emitter.wrappers :
        /\ emitter.wrappers[w].options.debounce > 0
        /\ Len(EmitsTo(w)) = 2
        /\ EmitsTo(w)[2].at - EmitsTo(w)[1].at \in 1..(emitter.wrappers[w].options.debounce - 1)
        /\ EmitsTo(w)[2].data # EmitsTo(w)[1].data
        /\ Cardinality(CallsOf(w)) = 1
        /\ \E k \in CallsOf(w) : hist.calls[k].data = EmitsTo(w)[2].data /\ hist.calls[k].at = now

\* the time of the last of the emits E[1..i] that a throttle of t lets through:
\* the first one, and each one that comes t or more after the one let through
\* before it (NeverCalled when i = 0)
RECURSIVE LastAccepted(_, _, _)
LastAccepted(E, i, t) ==
    IF i = 0 THEN NeverCalled
    ELSE LET last == LastAccepted(E, i - 1, t)
         IN IF last = NeverCalled \/ E[i].at - last >= t THEN E[i].at ELSE last
Accepted(E, i, t) == LastAccepted(E, i, t) = E[i].at /\ LastAccepted(E, i - 1, t) # E[i].at

\* C21: for a subscription with throttle t > 0 and no debounce, every
\* invocation is made inside the emit it answers, with the data of that emit;
\* the first emit and every emit that comes t or more after the last
\* accepted one get exactly one invocation, an emit that comes less than t
\* after the last accepted one gets none, then or later; so any two
\* invocations are at least t apart.
C21_ThrottleDropsWithinInterval ==
    \A w \in DOMAIN emitter.wrappers :
        LET t == emitter.wrappers[w].options.throttle
            E == EmitsTo(w)
        IN (t > 0 /\ emitter.wrappers[w].options.debounce = 0) =>
            /\ \A k \in CallsOf(w) :
                  LET c == hist.calls[k]
                  IN /\ c.sync
                     /\ c.seen \in DOMAIN E
                     /\ c.at = E[c.seen].at
                     /\ c.data = E[c.seen].data
            /\ \A i \in DOMAIN E :
                  Cardinality(CallsFor(w, i)) = IF Accepted(E, i, t) THEN 1 ELSE 0
            /\ \A k1, k2 \in CallsOf(w) :
                  k1 < k2 => hist.calls[k2].at - hist.calls[k1].at >= t

\* an emit that was accepted, a second one less than t later that was dropped,
\* and the clock past the end of the interval with the one invocation only
C21_Witness ==
    \E w \in DOMAIN emitter.wrappers :
        LET t == emitter.wrappers[w].options.throttle
            E == EmitsTo(w)
        IN /\ t > 0
           /\ Len(E) = 2
           /\ E[2].at - E[1].at \in 1..(t - 1)
           /\ Cardinality(CallsOf(w)) = 1
           /\ \E k \in CallsOf(w) : hist.calls[k].at = E[1].at /\ hist.calls[k].seen = 1
           /\ now >= E[1].at + t

\* the invocations made inside the emit numbered n, as positions of hist.calls
CallsIn(n) == {k \in DOMAIN hist.calls : hist.calls[k].sync /\ hist.calls[k].emit = n}
priorityOf(w) == emitter.wrappers[w].options.priority
\* subscription w runs before subscription v: its priority is higher, or it is
\* the same and w subscribed first
RunsBefore(w, v) == priorityOf(w) > priorityOf(v) \/ (priorityOf(w) = priorityOf(v) /\ w < v)

\* C22: the invocations made inside one emit come in descending priority,
\* and those of equal priority in the order of subscription.
C22_EmitRunsByPriority ==
    \A n \in 1..hist.emitCount :
        \A k1, k2 \in CallsIn(n) :
            k1 < k2 => RunsBefore(hist.calls[k1].wrapper, hist.calls[k2].wrapper)

\* an emit that invoked a subscription of priority 1 before one of priority 0
\* that had subscribed earlier
C22_Witness ==
    \E n \in 1..hist.emitCount :
        \E k1, k2 \in CallsIn(n) :
            /\ k1 < k2
            /\ hist.calls[k1].wrapper > hist.calls[k2].wrapper
            /\ priorityOf(hist.calls[k1].wrapper) > priorityOf(hist.calls[k2].wrapper)

\* the invocation at position k of hist.calls ended with an exception
Threw(k) == cfg.behaviour[emitter.wrappers[hist.calls[k].wrapper].handler] = "throw"
\* emit invokes subscription w at once: it has neither debounce nor throttle
Immediate(w) == emitter.wrappers[w].options.debounce = 0 /\ emitter.wrappers[w].options.throttle = 0

\* C23: an emit in which a handler threw returns normally, and it has invoked
\* every subscription that the event had when it began and that is invoked at
\* once, exactly once each, in descending priority and, for equal priority,
\* in the order of subscription.
C23_ThrowDoesNotStopEmit ==
    (call # NoCall /\ call.op = "emit" /\ \E k \in CallsIn(call.emit) : Threw(k)) =>
        /\ ~call.threw
        /\ \A i \in DOMAIN call.subscribed :
              Immediate(call.subscribed[i]) =>
                  Cardinality({k \in CallsIn(call.emit) : hist.calls[k].wrapper = call.subscribed[i]}) = 1
        /\ \A k1, k2 \in CallsIn(call.emit) :
              (k1 < k2 /\ Immediate(hist.calls[k1].wrapper) /\ Immediate(hist.calls[k2].wrapper)) =>
                  RunsBefore(hist.calls[k1].wrapper, hist.calls[k2].wrapper)

\* an emit whose first invocation threw and which went on to invoke another
\* subscription
C23_Witness ==
    /\ call # NoCall
    /\ call.op = "emit"
    /\ \E k1, k2 \in CallsIn(call.emit) :
          /\ k1 < k2
          /\ Threw(k1)
          /\ ~Threw(k2)
          /\ hist.calls[k1].wrapper # hist.calls[k2].wrapper

\* ------------------------------------------------- cache: the later claims
\* the cache has a storage and the storage does not fail
StorageWorks == cfg.storage # "memory" /\ cfg.hasWindow /\ cfg.faults = {}
\* the keys of the entries in memory that are not valid
InvalidInMemory(w) == {k \in DOMAIN w.cache.memoryCache : ~isValid(cfg, now, w.cache.memoryCache[k].value)}
\* the keys of the cache's entries in the storage, those under the prefix and
\* those it has saved, that are not valid or do not parse
InvalidInStorage(w) ==
    {k \in DOMAIN w.storage :
        /\ startsWith(k, cfg.storageKey) \/ k \in hist.saved
        /\ removable(cfg, now, w.storage[k])}
\* what load(k) returns in the world w
Loads(w, k) == load(cfg, now, w, k).ret

\* C24: cleanup() removes from the memory and from the storage the entries
\* that are not valid or do not parse, and nothing else; it returns the
\* number of keys it removed; what could be loaded before it can be loaded
\* after it.
C24_CleanupRemovesInvalid ==
    (call.op = "cleanup" /\ (InMemoryMode \/ StorageWorks)) =>
        LET before == call.before
            badMemory == InvalidInMemory(before)
            badStorage == IF InMemoryMode THEN {} ELSE InvalidInStorage(before)
        IN /\ DOMAIN cache.memoryCache = (DOMAIN before.cache.memoryCache) \ badMemory
           /\ DOMAIN storage = (DOMAIN before.storage) \ badStorage
           /\ call.result = Cardinality(badMemory \cup badStorage)
           /\ \A k \in Keys :
                 Loads(before, k).found => Loads(World(cache, storage), k) = Loads(before, k)

\* the durable write of the save before this load threw, and the catch of
\* save() has put the payload in memory
FellBack ==
    /\ cfg.storage # "memory" /\ cfg.hasWindow /\ cfg.faults \cap {"access", "setItem"} # {}
    /\ call.key \in DOMAIN cache.memoryCache
    /\ cache.memoryCache[call.key].value.items = call.saved

\* C25: load(k) made right after a save(p, k) that fell back to memory
\* returns p, be there an older entry under k in the storage or none.
C25_LoadAfterFallback ==
    (call.op = "load" /\ call.afterSave /\ FellBack) => call.result = Found(call.saved)

\* the keys that may have been saved through this cache: hist.saved on a
\* durable cache, any key on a memory cache
SavedKeys == IF InMemoryMode THEN Keys ELSE hist.saved

\* C26: after clearAll(), getStats().size is 0 and load(k) finds nothing for
\* every key k that was saved through this cache, under the prefix or not.
C26_ClearAllForgetsSavedKeys ==
    (call.op = "clearAll" /\ (InMemoryMode \/ StorageWorks)) =>
        /\ getStats(cfg, World(cache, storage)).size = 0
        /\ \A k \in SavedKeys : ~Loads(World(cache, storage), k).found

\* the call that has just been made was a load or a has, and what it returned
IsAccess(c) == c.op \in {"load", "has"}
ReturnedPayload(c) == IF c.op = "load" THEN c.result.found ELSE c.result

\* C27: a load or has call that returns a payload adds one to
\* getStats().hits and nothing to misses, one that returns absent adds one
\* to misses and nothing to hits, and no other call changes them; so hits
\* and misses count the calls of each kind made so far, on every backend
\* and for entries that are present but expired or stale.
C27_StatsCountLoads ==
    [][LET old == getStats(cfg, World(cache, storage))
           new == getStats(cfg, World(cache', storage'))
           hit == IF IsAccess(call') /\ ReturnedPayload(call') THEN 1 ELSE 0
           miss == IF IsAccess(call') /\ ~ReturnedPayload(call') THEN 1 ELSE 0
       IN /\ new.hits = old.hits + hit
          /\ new.misses = old.misses + miss
          /\ new.hits + new.misses > 0 => new.hitRate = Rat(new.hits, new.hits + new.misses)]_vars

\* C28: has(key) changes nothing: the map and the list of the memory cache,
\* the hit and miss counters and the stored entries with their timestamps
\* and access metadata are after it what they were before it.
C28_HasChangesNothing ==
    [][call'.op = "has" => (cache' = cache /\ storage' = storage)]_vars

\* every getOrSetAsync call made for the key k has resolved
Settled(k) == ~Awaiting(k)

\* C29: a getOrSetAsync call that is made while another one for the same key
\* is waiting for its factory does not run the factory again, and once the
\* calls for the key have resolved each of them has returned the payload
\* that load(key) finds in the cache.
C29_OverlappingCallsShareFactory ==
    \A j \in DOMAIN pending :
        pending[j].joined =>
            /\ ~pending[j].ran
            /\ Settled(pending[j].key) =>
                  \A i \in DOMAIN pending :
                      pending[i].key = pending[j].key =>
                          Loads(World(cache, storage), pending[j].key) = Found(pending[i].items)


\* the keys met from the node of key k along `next`, at most n of them
RECURSIVE WalkNext(_, _, _)
WalkNext(m, k, n) ==
    IF k = NoKey \/ n = 0 THEN <<>>
    ELSE IF k \notin DOMAIN m.memoryCache THEN <<k>>
    ELSE <<k>> \o WalkNext(m, m.memoryCache[k].next, n - 1)

\* C39: after any sequence of cache operations the LRU list is well formed:
\* the walk from head along next visits each key of the in-memory map once
\* and ends at tail, prev mirrors next, head has no prev and tail no next,
\* and head and tail are both null exactly when the cache is empty.
C39_LruListWellFormed ==
    LET keys == DOMAIN cache.memoryCache
        walk == WalkNext(cache, cache.head, Cardinality(keys) + 1)
    IN /\ Range(walk) = keys
       /\ Len(walk) = Cardinality(keys)
       /\ cache.tail = (IF walk = <<>> THEN NoKey ELSE Last(walk))
       /\ \A k \in keys :
             /\ cache.memoryCache[k].next # NoKey =>
                    /\ cache.memoryCache[k].next \in keys
                    /\ cache.memoryCache[cache.memoryCache[k].next].prev = k
             /\ cache.memoryCache[k].prev # NoKey =>
                    /\ cache.memoryCache[k].prev \in keys
                    /\ cache.memoryCache[cache.memoryCache[k].prev].next = k
             /\ cache.memoryCache[k].prev = NoKey <=> k = cache.head
             /\ cache.memoryCache[k].next = NoKey <=> k = cache.tail
       /\ (cache.head = NoKey) = (keys = {})
       /\ (cache.tail = NoKey) = (keys = {})
\* a load hit the only node of the list: moveToHead removed it, which left
\* the list empty, and added it again
C39_Witness ==
    /\ call.op = "load"
    /\ call.key \in DOMAIN cache.memoryCache
    /\ DOMAIN cache.memoryCache = {call.key}
    /\ cache.hitCount > 0
    /\ cache.head = call.key /\ cache.tail = call.key
    /\ C39_LruListWellFormed

\* ------------------------------------------------- index: the later claims
\* C30: after any sequence of build, update and delete, the parent that
\* getParentId reports for an indexed item, and every id in what
\* getParentIds and getPath report for it, is indexed.
C30_ReportedParentsAreIndexed ==
    \A id \in getAllIds(index) :
        /\ getParentId(index, id) # NoId => has(index, getParentId(index, id))
        /\ \A p \in Range(getParentIds(index, id)) : has(index, p)
        /\ \A p \in Range(getPath(index, id)) : has(index, p)

\* the urls of the model: those of the tree and those of the updated items
Urls == 1..(2 * MaxObj)
\* the indexed bookmarks with url u
BookmarksWithUrl(u) == {o \in IndexedObjs(index) : IndexedUrl(obj[o]) = u}

\* C31: after any sequence of build, update and delete, hasUrl(u) is true
\* exactly when some indexed bookmark has url u, and findByUrl(u) is then
\* an indexed bookmark with url u, also when bookmarks share a url.
C31_UrlIndexMatchesBookmarks ==
    \A u \in Urls :
        /\ hasUrl(index, u) <=> BookmarksWithUrl(u) # {}
        /\ BookmarksWithUrl(u) # {} => findByUrl(index, u) \in BookmarksWithUrl(u)

\* C32: after any sequence of build, update and delete, every entry of
\* getAllTags() has a count of at least 1 that is the number of items
\* findByTag returns for its tag, and the counts do not increase along the
\* list; so a tag that no indexed item carries is not listed.
C32_AllTagsCountsItems ==
    LET all == getAllTags(index)
    IN /\ \A i \in DOMAIN all :
             /\ all[i].count >= 1
             /\ all[i].count = Cardinality(findByTag(index, all[i].tag))
       /\ \A i, j \in DOMAIN all : i < j => all[i].count >= all[j].count


\* the ids of the folders of the tree h that hold the object o, outermost first
RECURSIVE AncestorIds(_, _)
AncestorIds(h, o) ==
    LET holders == {q \in 1..MaxObj : o \in Range(h[q].children)}
    IN IF holders = {} THEN <<>>
       ELSE LET q == CHOOSE q \in holders : TRUE
            IN Append(AncestorIds(h, q), getItemId(h[q]))

\* C37: after build(tree), for every indexed id, getPath(id) is
\* getParentIds(id) followed by id, getParentIds(id) lists the ancestors
\* of the item root first, and getParentId(id) is the last of them, absent
\* exactly for the items of the root list.
C37_PathIsParentsThenId ==
    call.op = "build" =>
        \A id \in getAllIds(index) :
            LET parents == getParentIds(index, id)
            IN /\ getPath(index, id) = Append(parents, id)
               /\ parents = AncestorIds(obj, get(index, id))
               /\ getParentId(index, id) = (IF parents = <<>> THEN NoId ELSE Last(parents))
               /\ getParentId(index, id) = NoId <=> get(index, id) \in Range(call.list)
\* a tree was built in which some item has two ancestors
C37_Witness ==
    /\ call.op = "build"
    /\ \E id \in getAllIds(index) :
          /\ Len(getParentIds(index, id)) = 2
          /\ getPath(index, id) = Append(getParentIds(index, id), id)


\* the objects of a list and of the folders in it, each before its children
RECURSIVE PreOrder(_, _)
PreOrder(h, list) ==
    IF list = <<>> THEN <<>>
    ELSE <<Head(list)>> \o PreOrder(h, h[Head(list)].children) \o PreOrder(h, Tail(list))
\* the number of folder levels nested below the object o
RECURSIVE FolderLevels(_, _)
FolderLevels(h, o) ==
    LET folders == {c \in Range(h[o].children) : isFolder(h[c])}
    IN IF folders = {} THEN 0
       ELSE 1 + FolderLevels(h, CHOOSE c \in folders : \A d \in folders : FolderLevels(h, c) >= FolderLevels(h, d))

\* C38: after build(tree), for every folder f, getDescendants(f) lists the
\* indexed items below f once each in pre-order, and getSubtreeStats(f)
\* has totalCount = bookmarkCount + folderCount = the number of items of
\* getDescendants(f), and depth = the number of folder levels below f.
C38_DescendantsAndStats ==
    call.op = "build" =>
        \A f \in getAllIds(index) :
            isFolder(obj[get(index, f)]) =>
                LET descendants == getDescendants(index, obj, f)
                    stats == getSubtreeStats(index, obj, f)
                IN /\ descendants = IdBearing(obj, PreOrder(obj, obj[get(index, f)].children))
                   /\ stats.totalCount = stats.bookmarkCount + stats.folderCount
                   /\ stats.totalCount = Len(descendants)
                   /\ stats.depth = FolderLevels(obj, get(index, f))

\* ----------------------------------------------- manager: the later claims
\* C33: after BookmarkManager.update(id, changes) returns true, having
\* changed the stored object in place and passed it to index.update, the
\* item is listed under no tag that it does not carry and no url other than
\* its own leads to it, so that hasUrl(old url) is false.
C33_InPlaceUpdateDropsOldEntries ==
    (call.op = "update" /\ call.ok) =>
        LET item == obj[get(index, call.id)]
        IN /\ \A t \in DOMAIN index.tagIndex :
                 call.id \in index.tagIndex[t] =>
                     t \in {toLowerCase(item.tags[j]) : j \in DOMAIN item.tags}
           /\ \A u \in DOMAIN index.urlIndex :
                 index.urlIndex[u] = call.id => IndexedUrl(item) = u


\* the ids of the items that getItems() reaches
ReachableIds(h, list) == {getItemId(h[o]) : o \in Reach(h, Range(list))} \ {NoId}
\* some folder that getItems() reaches lies below itself
SomeFolderInItself(h, list) == \E o \in Reach(h, Range(list)) : o \in Reach(h, Range(h[o].children))

\* C35: when move(sourceId, targetId, position) returns true, getItems()
\* reaches the ids it reached before, each item once, and no folder
\* contains itself, for every position and also for a target that lies
\* inside the source folder.
C35_MoveKeepsItems ==
    [][(call'.op = "move" /\ call'.ok) =>
          /\ ReachableIds(obj', items') = ReachableIds(obj, items)
          /\ IsForest(obj', items')
          /\ ~SomeFolderInItself(obj', items')]_vars


\* the item with id a is a folder of the manager's tree and the item with
\* id b lies below it
IsProperAncestor(h, list, a, b) ==
    LET folder == findItemById(h, list, a)
    IN /\ folder # NoRef
       /\ isFolder(h[folder])
       /\ findItemById(h, h[folder].children, b) # NoRef

\* C36: after any sequence of manager operations, adds included,
\* wouldCreateCycle(sourceId, targetId) is true exactly when sourceId is a
\* folder that is a proper ancestor of targetId in the manager's tree.
C36_CycleTestMatchesTree ==
    \A sourceId, targetId \in 1..Len(obj) :
        wouldCreateCycle(index, obj, sourceId, targetId)
            <=> IsProperAncestor(obj, items, sourceId, targetId)

\* ----------------------------------------------- emitter: the later claims
\* the subscriptions an emit of some event reaches
SubscribedIn(e) == UNION {Range(e.sets[e.handlers[ev]]) : ev \in DOMAIN e.handlers}

\* C34: running the function that on / once returned removes that one
\* subscription and no other: every other subscription stays subscribed,
\* also one made after an off(event) or a clear() in between, and running
\* the function once more changes nothing.
C34_UnsubscribeRemovesOnlyItsOwn ==
    [][call'.op = "unsubscribe" =>
          SubscribedIn(emitter') = SubscribedIn(emitter) \ {call'.wrapper}]_vars

====
